---------------------------- MODULE Spec2Model ----------------------------
(***************************************************************************)
(* Profile extraction, profile geometry and the normal-component projector *)
(* of pypism / glacier_flow_tools (src/glacier_flow_tools/profiles.py and  *)
(* its older copy src/pypism/profiles.py), the statistics, the ice mass    *)
(* fluxes, process_profile and the script that runs it for every profile   *)
(* (src/profiles/compute_profiles.py).                                     *)
(*                                                                         *)
(* Numbers.  The code computes in float64.  A finite value is modelled     *)
(* exactly, as the real number (p + q*sqrt(r)) / den with integers p, q,   *)
(* den > 0 and r >= 1 square-free, the fraction in lowest terms, so that   *)
(* two finite values are the same number exactly when their records are    *)
(* equal.  Polyline coordinates are integers, interpolation produces       *)
(* rationals, and the only irrational a profile point ever meets is the    *)
(* length sqrt(r) of the displacement its normal is computed from.  NaN is *)
(* a value of its own.  Rounding is not modelled, with one exception:      *)
(* where the code branches on the sign of a quantity that is exactly zero  *)
(* in real arithmetic (np.dot(a, n) in normal), the sign of the rounding   *)
(* residue is a nondeterministic input of the operation.                   *)
(***************************************************************************)
EXTENDS Integers, Sequences, FiniteSets, TLC

VARIABLES
    xs,     \* x-coordinates of the polyline handed to the operations
    ys,     \* y-coordinates of the polyline
    dtype,  \* numpy dtype of the coordinate arrays: "float" or "int"
    obj,    \* the gridded dataset wrapped by the accessor (self._obj)
    prof,   \* the profile dataset built by extract_profile
    call,   \* the last operation invoked, with its arguments
    ret,    \* what that operation returned, or the exception it raised
    obs_ds, \* the observed dataset shared by the process_profile invocations
    sim_ds, \* the simulated dataset shared by the invocations
    inv,    \* the invocations of the pipeline: position and local variables
    main    \* the compute_profiles script: position and local variables

vars == <<xs, ys, dtype, obj, prof, call, ret, obs_ds, sim_ds, inv, main>>

\* Longest polyline handed to an operation.
MaxLen == 3

\* Coordinates of the points the geometry primitives are applied to.  The
\* lattice XCoords \X YCoords holds axis-parallel and oblique displacements,
\* and three points in line, (0,0), (1,5), (3,15), whose displacements are
\* not all rounded alike by float64 arithmetic.
XCoords == {0, 1, 3}

YCoords == {0, 5, 15}

DTypes == {"float", "int"}

-----------------------------------------------------------------------------
(* float64 values *)

NaN == [nan |-> TRUE, p |-> 0, q |-> 0, den |-> 1, r |-> 1]

Abs(n) == IF n < 0 THEN -n ELSE n

RECURSIVE GCD(_, _)
GCD(m, n) == IF n = 0 THEN m ELSE GCD(n, m % n)

\* The largest k >= 1, built from factors >= f, with k*k dividing r.
RECURSIVE SquarePart(_, _)
SquarePart(r, f) ==
    IF f * f > r THEN 1
    ELSE IF r % (f * f) = 0 THEN f * SquarePart(r \div (f * f), f)
    ELSE SquarePart(r, f + 1)

\* (p + q*sqrt(r)) / den with r square-free, brought to lowest terms.
Lowest(p, q, den, r) ==
    LET g == GCD(GCD(Abs(p), Abs(q)), den)
    IN  [nan |-> FALSE, p |-> p \div g, q |-> q \div g, den |-> den \div g,
         r |-> IF q = 0 THEN 1 ELSE r]

\* (p + q*k*sqrt(r)) / den with r square-free: a radicand of 1 is no surd.
Folded(p, q, den, k, r) ==
    IF r = 1 THEN Lowest(p + q * k, 0, den, 1) ELSE Lowest(p, q * k, den, r)

\* (p + q*sqrt(r)) / den, where k*k is the largest square dividing r.
SquareFree(p, q, den, r, k) == Folded(p, q, den, k, r \div (k * k))

\* The finite value (p + q*sqrt(r)) / den for r >= 1, in canonical form.
Num(p, q, den, r) == SquareFree(p, q, den, r, SquarePart(r, 2))

Int2V(n) == Num(n, 0, 1, 1)

Rat(n, d) == Num(n, 0, d, 1)

Zero == Int2V(0)

One == Int2V(1)

Sgn(n) == IF n > 0 THEN 1 ELSE IF n < 0 THEN -1 ELSE 0

\* Sign of the real number A + B*sqrt(r), r >= 0.
SurdSign(A, B, r) ==
    LET sa == Sgn(A)
        sb == IF r = 0 THEN 0 ELSE Sgn(B)
    IN  IF sa = sb THEN sa
        ELSE IF sa = 0 THEN sb
        ELSE IF sb = 0 THEN sa
        ELSE sa * Sgn(A * A - B * B * r)

\* The radicand two operands of one elementwise operation share.
Rad(a, b) == IF a.q = 0 THEN b.r ELSE a.r

Neg(a) == IF a.nan THEN NaN ELSE Num(-a.p, -a.q, a.den, a.r)

Add(a, b) ==
    IF a.nan \/ b.nan THEN NaN
    ELSE Num(a.p * b.den + b.p * a.den, a.q * b.den + b.q * a.den,
             a.den * b.den, Rad(a, b))

Mul(a, b) ==
    IF a.nan \/ b.nan THEN NaN
    ELSE Num(a.p * b.p + a.q * b.q * Rad(a, b), a.p * b.q + a.q * b.p,
             a.den * b.den, Rad(a, b))

ValSign(a) == SurdSign(a.p, a.q, a.r)

\* a and b are the same float64 value (NaN counted equal to NaN).
SameVal(a, b) == a = b

\* x / sqrt(s) for integers x and s = |n|^2; 0/0 is NaN (a warning, no exception).
DivNorm_Unnormalised(x, s) == Int2V(x)

DivNorm(x, s) == IF s = 0 THEN NaN ELSE Num(0, x, s, s)

\* The value stored when NaN is cast to int64: the cast is undefined in C and
\* yields INT64_MIN or 0 depending on the platform.  -1048576 stands for
\* INT64_MIN, which no property here distinguishes from any other integer
\* below -1.
NaNCasts == {-1048576, 0}

\* Assigning a float of magnitude <= 1 into an int64 array truncates it.
CastInt(v, nanInt) ==
    IF v.nan THEN Int2V(nanInt)
    ELSE IF SameVal(v, One) THEN One
    ELSE IF SameVal(v, Int2V(-1)) THEN Int2V(-1)
    ELSE Zero

\* ns[j] = v, where ns = np.zeros_like(p) has the dtype of the input.
Store(dt, v, nanInt) ==
    IF dt = "int" THEN <<CastInt(v[1], nanInt), CastInt(v[2], nanInt)>> ELSE v

-----------------------------------------------------------------------------
(* geometry primitives *)

\* np.dot(a, n) < 0.  The products a[0]*n[0] and a[1]*n[1] cancel exactly in
\* real arithmetic; when both are nonzero the float64 sum is the rounding
\* residue of the two products, and `rnd` says whether it came out negative.
SumNegative(t1, t2, d, rnd) ==
    IF d.nan THEN FALSE
    ELSE IF ValSign(d) # 0 THEN ValSign(d) < 0
    ELSE ValSign(t1) # 0 /\ ValSign(t2) # 0 /\ rnd

ProductsNegative(t1, t2, rnd) == SumNegative(t1, t2, Add(t1, t2), rnd)

DotNegative(a, n, rnd) ==
    ProductsNegative(Mul(Int2V(a[1]), n[1]), Mul(Int2V(a[2]), n[2]), rnd)

\* The rounding outcomes possible for normal(point0, point1).
Roundings(point0, point1) ==
    IF point0[1] # point1[1] /\ point0[2] # point1[2] THEN BOOLEAN ELSE {FALSE}

\* n / np.linalg.norm(n) for an integer vector n.
Normalised(n) ==
    <<DivNorm(n[1], n[1] * n[1] + n[2] * n[2]),
      DivNorm(n[2], n[1] * n[1] + n[2] * n[2])>>

\* if np.dot(a, n) < 0: n = -n
Oriented(a, n, rnd) ==
    IF DotNegative(a, n, rnd) THEN <<Neg(n[1]), Neg(n[2])>> ELSE n

\* The normal of the difference a = point0 - point1.
NormalOf(a, rnd) == Oriented(a, Normalised(<<-a[2], a[1]>>), rnd)

normal(point0, point1, rnd) ==
    NormalOf(<<point0[1] - point1[1], point0[2] - point1[2]>>, rnd)

\* a if norm == 0 else a / norm, for the difference a = point1 - point0.
TangentialOf(a) ==
    IF a[1] * a[1] + a[2] * a[2] = 0 THEN <<Int2V(a[1]), Int2V(a[2])>>
    ELSE Normalised(a)

tangential_Unguarded(point0, point1) ==
    Normalised(<<point1[1] - point0[1], point1[2] - point0[2]>>)

tangential(point0, point1) ==
    TangentialOf(<<point1[1] - point0[1], point1[2] - point0[2]>>)

\* p = np.vstack((px, py)).T
vstack(px, py) == [j \in 1..Len(px) |-> <<px[j], py[j]>>]

\* The result of a call: the two returned sequences, or the exception raised.
Returned(op, a, b) == [op |-> op, exc |-> "none", a |-> a, b |-> b]

Raised(op, e) == [op |-> op, exc |-> e, a |-> <<>>, b |-> <<>>]

\* if len(p) < 2: return [0], [0]
TooShort_OnlyEmpty(p) == Len(p) < 1

TooShort(p) == Len(p) < 2

\* Indices (1-based) of the two points the vector at position j is computed from.
Before_Here(j, n) == IF j = 1 THEN 1 ELSE IF j = n THEN n - 1 ELSE j

Before(j, n) == IF j = 1 THEN 1 ELSE j - 1

After(j, n) == IF j = n THEN n ELSE j + 1

\* return ns[:, 0], ns[:, 1]
Columns(op, ns) ==
    Returned(op, [j \in 1..Len(ns) |-> ns[j][1]], [j \in 1..Len(ns) |-> ns[j][2]])

\* The normals at the points of p; rnd[j] is the rounding outcome of the
\* j-th call of normal.
NormalsOf(p, dt, rnd, nanInt) ==
    IF TooShort(p) THEN Returned("compute_normals", <<Zero>>, <<Zero>>)
    ELSE IF Len(p) < 2 THEN Raised("compute_normals", "IndexError")
    ELSE Columns("compute_normals",
                 [j \in 1..Len(p) |->
                     Store(dt, normal(p[Before(j, Len(p))], p[After(j, Len(p))], rnd[j]),
                           nanInt)])

compute_normals(px, py, dt, rnd, nanInt) == NormalsOf(vstack(px, py), dt, rnd, nanInt)

TangentialsOf(p, dt, nanInt) ==
    IF TooShort(p) THEN Returned("compute_tangentials", <<Zero>>, <<Zero>>)
    ELSE IF Len(p) < 2 THEN Raised("compute_tangentials", "IndexError")
    ELSE Columns("compute_tangentials",
                 [j \in 1..Len(p) |->
                     Store(dt, tangential(p[Before(j, Len(p))], p[After(j, Len(p))]),
                           nanInt)])

compute_tangentials(px, py, dt, nanInt) == TangentialsOf(vstack(px, py), dt, nanInt)

\* The rounding outcomes possible for the n calls of normal in compute_normals.
RoundingSeqs(px, py) ==
    LET p == vstack(px, py)
        n == Len(p)
    IN  {f \in [1..n -> BOOLEAN] :
            \A j \in 1..n : f[j] \in Roundings(p[Before(j, n)], p[After(j, n)])}

\* The NaN-to-int casts that can occur: one outcome is enough unless the
\* arrays are of integer dtype.
NaNCastsFor(dt) == IF dt = "int" THEN NaNCasts ELSE {0}

-----------------------------------------------------------------------------
(* gridded datasets and interpolation *)

\* A variable on the (x, y) grid: val[<<i, j>>] is its value at node
\* (gx[i], gy[j]).
GridVar(val) == [spatial |-> TRUE, val |-> val]

\* A variable without x and y dimensions (a grid-mapping variable).
PlainVar == [spatial |-> FALSE, val |-> [ij \in {} |-> 0]]

\* One variable, 5 at every node.
DsConst ==
    [name |-> "const", gx |-> <<0, 10>>, gy |-> <<0, 10>>,
     vars |-> [k \in {"v"} |-> GridVar([ij \in (1..2) \X (1..2) |-> 5])]]

\* A velocity field and a variable that is not on the grid.
DsVel ==
    [name |-> "vel", gx |-> <<0, 20>>, gy |-> <<0, 5>>,
     vars |-> [k \in {"vx", "vy", "mapping"} |->
                 IF k = "vx" THEN GridVar([ij \in (1..2) \X (1..2) |-> 3 * ij[1] + ij[2]])
                 ELSE IF k = "vy" THEN GridVar([ij \in (1..2) \X (1..2) |-> ij[1] - 2 * ij[2]])
                 ELSE PlainVar]]

\* The error components of a velocity field.
DsErr ==
    [name |-> "err", gx |-> <<0, 10>>, gy |-> <<0, 10>>,
     vars |-> [k \in {"vx_err", "vy_err"} |->
                 IF k = "vx_err" THEN GridVar([ij \in (1..2) \X (1..2) |-> ij[1]])
                 ELSE GridVar([ij \in (1..2) \X (1..2) |-> 2 * ij[2]])]]

Datasets == {DsConst, DsVel, DsErr}

\* list(self._obj.data_vars)
DataVars(ds) == DOMAIN ds.vars

\* Index of the grid cell along one axis that holds coordinate c.
Cell(g, c) == CHOOSE i \in 1..(Len(g) - 1) : g[i] <= c /\ c <= g[i + 1]

\* Linear interpolation of a grid variable at the point (px, py);
\* fill_value = np.nan outside the grid.
InterpAt(ds, da, px, py) ==
    IF \/ px < ds.gx[1] \/ px > ds.gx[Len(ds.gx)]
       \/ py < ds.gy[1] \/ py > ds.gy[Len(ds.gy)]
    THEN NaN
    ELSE LET i  == Cell(ds.gx, px)
             j  == Cell(ds.gy, py)
             x0 == ds.gx[i]
             x1 == ds.gx[i + 1]
             y0 == ds.gy[j]
             y1 == ds.gy[j + 1]
         IN  Rat(  da.val[<<i, j>>]         * (x1 - px) * (y1 - py)
                 + da.val[<<i + 1, j>>]     * (px - x0) * (y1 - py)
                 + da.val[<<i, j + 1>>]     * (x1 - px) * (py - y0)
                 + da.val[<<i + 1, j + 1>>] * (px - x0) * (py - y0),
                 (x1 - x0) * (y1 - y0))

\* da.interp(x=x, y=y, kwargs={"fill_value": np.nan}): one value per point.
interp(ds, da, px, py) == [j \in 1..Len(px) |-> InterpAt(ds, da, px[j], py[j])]

\* da.interp raises for a variable that lacks the x or y dimension.
InterpRaises(da) == ~ da.spatial

-----------------------------------------------------------------------------
(* profile datasets and the accessor's methods *)

\* np.sqrt(n) for an integer n >= 0.
Sqrt(n) == IF n = 0 THEN Zero ELSE Num(0, 1, 1, n)

\* profile_axis = np.sqrt((xs - xs[0]) ** 2 + (ys - ys[0]) ** 2)
profile_axis_Diff(px, py) ==
    [j \in 1..(Len(px) - 1) |->
        Sqrt((px[j + 1] - px[j]) * (px[j + 1] - px[j])
             + (py[j + 1] - py[j]) * (py[j + 1] - py[j]))]

profile_axis(px, py) ==
    [j \in 1..Len(px) |->
        Sqrt((px[j] - px[1]) * (px[j] - px[1]) + (py[j] - py[1]) * (py[j] - py[1]))]

NoProfile == [exists |-> FALSE]

\* The data variables and index coordinates of a profile dataset.
Profile(axis, dvars, pname, pid) ==
    [exists |-> TRUE, axis |-> axis, vars |-> dvars,
     profile_name |-> pname, profile_id |-> pid]

\* A method's outcome: the dataset it leaves or returns, or the exception.
Ok(op, ds) == [op |-> op, exc |-> "none", ds |-> ds]

Fail(op, e, ds) == [op |-> op, exc |-> e, ds |-> ds]

\* x * x_n + y * y_n
func_Difference(x, x_n, y, y_n) == Add(Mul(x, x_n), Neg(Mul(y, y_n)))

func(x, x_n, y, y_n) == Add(Mul(x, x_n), Mul(y, y_n))

\* self._obj.data_vars of a profile dataset (profile_id is a coordinate).
ProfileDataVars(ds) == DOMAIN ds.vars \cup {"profile_name"}

\* assert (x_component and y_component) in self._obj.data_vars:
\* `x and y` is y when x is a non-empty string, else x.
AssertHolds(x_component, y_component, ds) ==
    (IF x_component # "" THEN y_component ELSE x_component) \in ProfileDataVars(ds)

\* ProfilesMethods.add_normal_component on the profile dataset ds.
add_normal_component(ds, x_component, y_component, normal_name) ==
    IF ~ AssertHolds(x_component, y_component, ds)
    THEN Fail("add_normal_component", "AssertionError", ds)
    ELSE IF x_component \notin DOMAIN ds.vars
    THEN Fail("add_normal_component", "KeyError", ds)
    ELSE LET n == Len(ds.axis)
             v == [j \in 1..n |->
                     func(ds.vars[x_component][j], ds.vars["nx"][j],
                          ds.vars[y_component][j], ds.vars["ny"][j])]
         IN  Ok("add_normal_component",
                [ds EXCEPT !.vars = (normal_name :> v) @@ ds.vars])

\* data_vars of a call: None, or a collection of names.
None == [none |-> TRUE, names |-> {}]

Names(S) == [none |-> FALSE, names |-> S]

\* if data_vars is None: data_vars = list(self._obj.data_vars)
Requested(ds, data_vars) ==
    IF data_vars.none THEN DataVars(ds) ELSE data_vars.names

\* Both components of a vector are variables of the profile.
BothPresent(ds, comps) ==
    comps.x \in ProfileDataVars(ds) /\ comps.y \in ProfileDataVars(ds)

\* if np.all(...): ds.profiles.add_normal_component(...)
AddIfPresent(ds, comps, normal_name) ==
    IF BothPresent(ds, comps)
    THEN add_normal_component(ds, comps.x, comps.y, normal_name).ds
    ELSE ds

\* The compute_profile_normal block of extract_profile.
ProfileNormals_Always(ds, a) ==
    AddIfPresent(AddIfPresent(ds, a.normal_component_vars, a.normal_var),
                 a.normal_component_error_vars, a.normal_error_var)

ProfileNormals(ds, a) ==
    IF a.compute_profile_normal
    THEN AddIfPresent(AddIfPresent(ds, a.normal_component_vars, a.normal_var),
                      a.normal_component_error_vars, a.normal_error_var)
    ELSE ds

\* ProfilesMethods.extract_profile(xs, ys, ...) on the dataset ds; a holds the
\* keyword arguments, rnd and nanInt the outcomes of rounding and of the
\* NaN-to-int cast inside compute_normals.
\* The requested variables that da.interp resamples.
Resampled(ds, a) ==
    {m \in Requested(ds, a.data_vars) : ~ InterpRaises(ds.vars[m])}

\* ds = xr.merge(das); ds["profile_id"] = [profile_id], where nrm is what
\* compute_normals returned.
Merged(ds, px, py, a, nrm) ==
    Profile(profile_axis(px, py),
            [k \in Resampled(ds, a) \cup {"nx", "ny"} |->
                IF k = "nx" THEN nrm.a
                ELSE IF k = "ny" THEN nrm.b
                ELSE interp(ds, ds.vars[k], px, py)],
            a.profile_name, a.profile_id)

extract_profile(ds, px, py, dt, a, rnd, nanInt) ==
    IF Len(px) = 0 THEN Fail("extract_profile", "IndexError", NoProfile)
    ELSE IF \E m \in Requested(ds, a.data_vars) : m \notin DataVars(ds)
    THEN Fail("extract_profile", "KeyError", NoProfile)
    ELSE Ok("extract_profile",
            ProfileNormals(Merged(ds, px, py, a,
                                  compute_normals(px, py, dt, rnd, nanInt)), a))

-----------------------------------------------------------------------------
(* states *)

\* The polylines of at most MaxLen points with x in CX and y in CY.
PolylinesOn(CX, CY) == UNION {[1..n -> CX] \X [1..n -> CY] : n \in 0..MaxLen}

Polylines == PolylinesOn(XCoords, YCoords)

NoDataset == [name |-> "none"]

NoCall == [op |-> "none"]

NoReturn == Raised("none", "none")

NoMain == [pc |-> "none"]

\* No pipeline and no script is running.
NoPipeline ==
    /\ obs_ds = NoDataset
    /\ sim_ds = NoDataset
    /\ inv = <<>>
    /\ main = NoMain

InitGeom ==
    /\ \E pl \in Polylines : xs = pl[1] /\ ys = pl[2]
    /\ dtype \in DTypes
    /\ obj = NoDataset
    /\ prof = NoProfile
    /\ call = NoCall
    /\ ret = NoReturn
    /\ NoPipeline

\* The geometry primitives are pure: a behaviour applies one of them, once,
\* to the polyline it started with.
Normal ==
    /\ call.op = "none"
    /\ Len(xs) >= 2
    /\ \E rnd \in Roundings(<<xs[1], ys[1]>>, <<xs[2], ys[2]>>) :
          LET n == normal(<<xs[1], ys[1]>>, <<xs[2], ys[2]>>, rnd)
          IN  ret' = Returned("normal", <<n[1]>>, <<n[2]>>)
    /\ call' = [op |-> "normal"]
    /\ UNCHANGED <<xs, ys, dtype, obj, prof, obs_ds, sim_ds, inv, main>>

Tangential ==
    /\ call.op = "none"
    /\ Len(xs) >= 2
    /\ LET t == tangential(<<xs[1], ys[1]>>, <<xs[2], ys[2]>>)
       IN  ret' = Returned("tangential", <<t[1]>>, <<t[2]>>)
    /\ call' = [op |-> "tangential"]
    /\ UNCHANGED <<xs, ys, dtype, obj, prof, obs_ds, sim_ds, inv, main>>

ComputeNormals ==
    /\ call.op = "none"
    /\ \E rnd \in RoundingSeqs(xs, ys), nanInt \in NaNCastsFor(dtype) :
          ret' = compute_normals(xs, ys, dtype, rnd, nanInt)
    /\ call' = [op |-> "compute_normals"]
    /\ UNCHANGED <<xs, ys, dtype, obj, prof, obs_ds, sim_ds, inv, main>>

ComputeTangentials ==
    /\ call.op = "none"
    /\ \E nanInt \in NaNCastsFor(dtype) :
          ret' = compute_tangentials(xs, ys, dtype, nanInt)
    /\ call' = [op |-> "compute_tangentials"]
    /\ UNCHANGED <<xs, ys, dtype, obj, prof, obs_ds, sim_ds, inv, main>>

NextGeom ==
    \/ Normal
    \/ Tangential
    \/ ComputeNormals
    \/ ComputeTangentials

SpecGeom == InitGeom /\ [][NextGeom]_vars

\* A name that is a variable of none of Datasets.
Absent == "thk"

\* Most names a caller lists in data_vars.
MaxVars == 2

\* The values of data_vars a caller passes for the dataset ds.
Requests(ds) ==
    {None} \cup {Names(S) : S \in {T \in SUBSET (DataVars(ds) \cup {Absent}) :
                                     Cardinality(T) <= MaxVars}}

\* Coordinates of the points of an extracted profile: on and between the
\* nodes of the grids, and outside the grid of DsVel.
ProfileCoords == {0, 10}

\* Keyword arguments of extract_profile: the defaults of its signature, with
\* data_vars and compute_profile_normal chosen by the caller.
ExtractArgs(ds) ==
    {[profile_name |-> "Glacier X", profile_id |-> 0, data_vars |-> dv,
      normal_var |-> "v_normal", normal_error_var |-> "v_err_normal",
      normal_component_vars |-> [x |-> "vx", y |-> "vy"],
      normal_component_error_vars |-> [x |-> "vx_err", y |-> "vy_err"],
      compute_profile_normal |-> cpn] :
        dv \in Requests(ds), cpn \in BOOLEAN}

Outcome(r) == [op |-> r.op, exc |-> r.exc]

Init ==
    /\ \E pl \in PolylinesOn(ProfileCoords, ProfileCoords) : xs = pl[1] /\ ys = pl[2]
    /\ dtype \in DTypes
    /\ obj \in Datasets
    /\ prof = NoProfile
    /\ call = NoCall
    /\ ret = Outcome(NoReturn)
    /\ NoPipeline

\* After a method call with outcome r the profile is the dataset the method
\* returned or, when it raised, the dataset as the method left it.
MethodResult(r) ==
    /\ prof' = r.ds
    /\ ret' = Outcome(r)

\* obj.profiles.extract_profile(xs, ys, **a): a behaviour builds one profile
\* dataset from the polyline and the dataset it started with.
ExtractProfile ==
    /\ call.op = "none"
    /\ \E a \in ExtractArgs(obj), rnd \in RoundingSeqs(xs, ys),
          nanInt \in NaNCastsFor(dtype) :
          /\ MethodResult(extract_profile(obj, xs, ys, dtype, a, rnd, nanInt))
          /\ call' = [op |-> "extract_profile", args |-> a]
    /\ UNCHANGED <<xs, ys, dtype, obj, obs_ds, sim_ds, inv, main>>

\* prof.profiles.add_normal_component(x_component, y_component, normal_name)
AddNormalComponent ==
    /\ prof.exists
    /\ \E xc \in {"vx", Absent}, yc \in {"vy", Absent},
          nn \in {"v_normal", "v_err_normal"} :
          /\ MethodResult(add_normal_component(prof, xc, yc, nn))
          /\ call' = [op |-> "add_normal_component", x_component |-> xc,
                       y_component |-> yc, normal_name |-> nn]
    /\ UNCHANGED <<xs, ys, dtype, obj, obs_ds, sim_ds, inv, main>>

Next ==
    \/ ExtractProfile
    \/ AddNormalComponent

Spec == Init /\ [][Next]_vars

-----------------------------------------------------------------------------
(* statistics *)

\* Longest series handed to the statistics.
MaxStatLen == 3

\* Sum of the entries of f at the positions S.
RECURSIVE Sum(_, _)
Sum(f, S) ==
    IF S = {} THEN Zero
    ELSE Add(f[CHOOSE j \in S : TRUE], Sum(f, S \ {CHOOSE j \in S : TRUE}))

\* np.sqrt of a rational value v >= 0.
SqrtV(v) ==
    IF v.nan THEN NaN ELSE Mul(Sqrt(v.p * v.den), Rat(1, v.den))

\* The mean of the entries of f at the finite positions S (NaN, with a
\* warning, when there is none).
MeanOver(f, S) ==
    IF S = {} THEN NaN ELSE Mul(Sum(f, S), Rat(1, Cardinality(S)))

\* np.nanmean(f, axis=-1)
nanmean_Mean(f) == MeanOver(f, 1..Len(f))

nanmean(f) == MeanOver(f, {j \in 1..Len(f) : ~ f[j].nan})

\* diff = sim - obs; diff**2
SquaredDiff(sim, obs) ==
    [j \in 1..Len(sim) |->
        Mul(Add(sim[j], Neg(obs[j])), Add(sim[j], Neg(obs[j])))]

\* np.sqrt(np.nanmean(diff**2, axis=-1))
rmsd(sim, obs) == SqrtV(nanmean(SquaredDiff(sim, obs)))

\* The positions at which both series hold a value.
Valid(a, b) == {j \in 1..Len(a) : ~ a[j].nan /\ ~ b[j].nan}

\* n * sum(a*b) - sum(a) * sum(b) over the positions S, n = |S|: the
\* covariance of a and b over S, times n^2.
Co_Uncentred(a, b, S) ==
    Mul(Int2V(Cardinality(S)), Sum([j \in 1..Len(a) |-> Mul(a[j], b[j])], S))

Co(a, b, S) ==
    Add(Mul(Int2V(Cardinality(S)), Sum([j \in 1..Len(a) |-> Mul(a[j], b[j])], S)),
        Neg(Mul(Sum(a, S), Sum(b, S))))

\* c / sqrt(v) for rational c and v: cov / (std_a * std_b) with the
\* numerator and the square of the denominator both scaled by n^2; 0/0 is NaN.
Quotient(c, v) ==
    IF v = Zero THEN NaN
    ELSE Mul(Mul(c, SqrtV(v)), Rat(v.den, v.p))

\* The Pearson correlation of a and b over the positions where both hold a
\* value, in exact arithmetic.
corr(a, b) ==
    IF Valid(a, b) = {} THEN NaN
    ELSE Quotient(Co(a, b, Valid(a, b)),
                  Mul(Co(a, a, Valid(a, b)), Co(b, b, Valid(a, b))))

\* How the float64 quotient cov / (std_a * std_b) comes out when it is 1 or
\* -1 in exact arithmetic: std_a * std_b is a product of two rounded square
\* roots, so the quotient is exact (0) or a neighbouring float64 (-1, 1).
CorrRoundings == {-1, 0, 1}

\* 1048576 stands for 2^52: the neighbours of 1 are 1 - 2^-52 and 1 + 2^-52.
Rounded(r, rnd) ==
    IF r \in {One, Int2V(-1)} THEN Mul(r, Rat(1048576 + rnd, 1048576)) ELSE r

\* The rational value v is the square of a rational number.
IsSquare(v) == SqrtV(v).q = 0

\* float64 computes the means, the deviations, their products and the two
\* square roots without rounding: the number of positions is a power of two
\* and both standard deviations are rational.
ExactOver(a, b, S) ==
    /\ Cardinality(S) \in {1, 2, 4, 8}
    /\ IsSquare(Co(a, a, S))
    /\ IsSquare(Co(b, b, S))

\* xr.corr(sim, obs, dim="profile_axis")
pearson_r(sim, obs, rnd) ==
    IF ExactOver(sim, obs, Valid(sim, obs)) THEN corr(sim, obs)
    ELSE Rounded(corr(sim, obs), rnd)

\* func[stat]["func"] applied to the observed and the simulated variable, in
\* this order: rmsd receives the observed series as `sim`.
StatValue(ds, stat, obs_var, sim_var, rnd) ==
    IF stat = "rmsd" THEN rmsd(ds.vars[obs_var], ds.vars[sim_var])
    ELSE pearson_r(ds.vars[obs_var], ds.vars[sim_var], rnd)

\* The names in the list stats.
StatNames(stats) == {stats[j] : j \in 1..Len(stats)}

\* for stat in stats: self._obj[stat] = ...
WithStats_Anomaly(ds, obs_var, sim_var, stats, rnd) ==
    [ds EXCEPT !.vars =
        [k \in DOMAIN ds.vars \cup StatNames(stats) |->
            IF k \in StatNames(stats)
            THEN StatValue(ds, k, obs_var, sim_var, rnd)
            ELSE IF k = obs_var
            THEN [j \in 1..Len(ds.vars[k]) |-> Add(ds.vars[k][j], Neg(ds.vars[sim_var][j]))]
            ELSE ds.vars[k]]]

WithStats(ds, obs_var, sim_var, stats, rnd) ==
    [ds EXCEPT !.vars =
        [k \in DOMAIN ds.vars \cup StatNames(stats) |->
            IF k \in StatNames(stats)
            THEN StatValue(ds, k, obs_var, sim_var, rnd)
            ELSE ds.vars[k]]]

\* ProfilesMethods.calculate_stats on the profile dataset ds; rnd is the
\* rounding outcome of xr.corr.
\* The keys of func.
Funcs == {"rmsd", "pearson_r"}

\* How many entries of stats the loop completes before func[stat] raises,
\* funcs being the keys of func.
CompletedOf(stats, funcs) ==
    IF \A j \in 1..Len(stats) : stats[j] \in funcs THEN Len(stats)
    ELSE (CHOOSE j \in 1..Len(stats) :
              /\ stats[j] \notin funcs
              /\ \A i \in 1..(j - 1) : stats[i] \in funcs) - 1

Completed(stats) == CompletedOf(stats, Funcs)

\* The loop writes self._obj[stat] entry by entry: what it wrote before an
\* entry raised stays in the dataset.
calculate_stats(ds, obs_var, sim_var, stats, rnd) ==
    IF ~ AssertHolds(obs_var, sim_var, ds)
    THEN Fail("calculate_stats", "AssertionError", ds)
    ELSE IF stats = <<>> THEN Ok("calculate_stats", ds)
    ELSE IF \/ Completed(stats) = 0
            \/ obs_var \notin DOMAIN ds.vars
            \/ sim_var \notin DOMAIN ds.vars
    THEN Fail("calculate_stats", "KeyError", ds)
    ELSE IF Completed(stats) < Len(stats)
    THEN Fail("calculate_stats", "KeyError",
              WithStats(ds, obs_var, sim_var, SubSeq(stats, 1, Completed(stats)), rnd))
    ELSE Ok("calculate_stats", WithStats(ds, obs_var, sim_var, stats, rnd))

\* diff = df[col1] - df[col2]
Diff(df, col1, col2) ==
    [j \in 1..Len(df[col1]) |-> Add(df[col1][j], Neg(df[col2][j]))]

\* np.isnan(diff).all() or (len(diff) <= 2)
TooFew(diff) == (\A j \in 1..Len(diff) : diff[j].nan) \/ Len(diff) <= 2

\* diff**2
Squared(diff) == [j \in 1..Len(diff) |-> Mul(diff[j], diff[j])]

\* The legacy calculate_stats(df, col1, col2) of pypism: one row with the
\* columns pearson_r and rmsd.  pandas' Series.corr returns exactly 1 for a
\* series against itself.
calculate_stats_df(df, col1, col2) ==
    IF TooFew(Diff(df, col1, col2))
    THEN [pearson_r |-> NaN, rmsd |-> NaN]
    ELSE [pearson_r |-> corr(df[col2], df[col1]),
          rmsd |-> SqrtV(nanmean(Squared(Diff(df, col1, col2))))]

\* Values of a series entry: two numbers, and NaN for a missing value.
StatVals == {Zero, One, NaN}

\* The documented example: observed [1, 2, 3, 4], simulated [1, 2, 3, 5].
ScenarioObs == <<Int2V(1), Int2V(2), Int2V(3), Int2V(4)>>

ScenarioSim == <<Int2V(1), Int2V(2), Int2V(3), Int2V(5)>>

\* Pairs of an observed and a simulated series along one profile axis (a
\* profile has at least one point).
SeriesPairs ==
    UNION {[1..n -> StatVals] \X [1..n -> StatVals] : n \in 1..MaxStatLen}
        \cup {<<ScenarioObs, ScenarioSim>>}

\* A merged profile holding the observed variable v and the simulated
\* variable velsurf_mag.
StatsProfile(obs, sim) ==
    Profile([j \in 1..Len(obs) |-> Int2V(j - 1)],
            [k \in {"v", "velsurf_mag"} |-> IF k = "v" THEN obs ELSE sim],
            "Glacier X", 0)

InitStats ==
    /\ xs = <<>>
    /\ ys = <<>>
    /\ dtype = "float"
    /\ obj = NoDataset
    /\ \E pr \in SeriesPairs : prof = StatsProfile(pr[1], pr[2])
    /\ call = NoCall
    /\ ret = Outcome(NoReturn)
    /\ NoPipeline

\* The lists a caller passes as stats.
StatLists ==
    {<<>>, <<"rmsd">>, <<"pearson_r">>, <<"rmsd", "pearson_r">>,
     <<"mae">>, <<"rmsd", "mae">>, <<"mae", "rmsd">>}

\* prof.profiles.calculate_stats(obs_var, sim_var, stats=stats)
CalculateStats ==
    /\ call.op = "none"
    /\ \E ov \in {"v", Absent}, sv \in {"velsurf_mag", "v", Absent},
          st \in StatLists, rnd \in CorrRoundings :
          /\ MethodResult(calculate_stats(prof, ov, sv, st, rnd))
          /\ call' = [op |-> "calculate_stats", obs_var |-> ov, sim_var |-> sv,
                      stats |-> st]
    /\ UNCHANGED <<xs, ys, dtype, obj, obs_ds, sim_ds, inv, main>>

\* calculate_stats(df, col1, col2) of pypism on the columns of the profile.
LegacyStats ==
    /\ call.op = "none"
    /\ \E c1 \in {"velsurf_mag", "v"}, c2 \in {"v"} :
          /\ ret' = [op |-> "calculate_stats_df", exc |-> "none",
                     row |-> calculate_stats_df(prof.vars, c1, c2)]
          /\ call' = [op |-> "calculate_stats_df", col1 |-> c1, col2 |-> c2]
    /\ UNCHANGED <<xs, ys, dtype, obj, prof, obs_ds, sim_ds, inv, main>>

NextStats ==
    \/ CalculateStats
    \/ LegacyStats

SpecStats == InitStats /\ [][NextStats]_vars

-----------------------------------------------------------------------------
(* statistics along a dimension *)

\* The dimensions of the variables of a profile dataset that holds one
\* profile at several times: a variable is a sequence over time of series
\* along profile_axis.
Dims == <<"time", "profile_axis">>

\* The series of the variable m along dim, one for each index of the other
\* dimension.
Along(m, dim) ==
    IF dim = "profile_axis" THEN m
    ELSE [j \in 1..Len(m[1]) |-> [t \in 1..Len(m) |-> m[t][j]]]

\* The dimension a statistic computed along dim is indexed by.
Remaining(dim) == IF dim = "profile_axis" THEN "time" ELSE "profile_axis"

\* A statistic variable: its dimension and its values.
StatVar(dim, val) == [dim |-> dim, val |-> val]

\* xr.apply_ufunc(rmsd, obs, sim, input_core_dims=[[dim], [dim]],
\* output_core_dims=[[]]): dim is moved to the last axis, which rmsd reduces.
apply_ufunc(obs, sim, dim) ==
    StatVar(Remaining(dim),
            [s \in 1..Len(Along(obs, dim)) |->
                rmsd(Along(obs, dim)[s], Along(sim, dim)[s])])

\* pearson_r(obs, sim): xr.corr(sim, obs, dim="profile_axis")
pearson_r_along(sim, obs, rnd) ==
    StatVar("time", [t \in 1..Len(sim) |-> pearson_r(sim[t], obs[t], rnd)])

\* self._obj[stat] = ... for the statistic stat and the dimension dim.
StatAlong(ds, stat, obs_var, sim_var, dim, rnd) ==
    IF stat = "rmsd" THEN apply_ufunc(ds.vars[obs_var], ds.vars[sim_var], dim)
    ELSE pearson_r_along(ds.vars[obs_var], ds.vars[sim_var], rnd)

\* The entry of stats at which the loop raises for the dimension dim, or 0:
\* apply_ufunc raises ValueError when its operands lack the core dimension.
RaisesAt(stats, dim) ==
    IF \E j \in 1..Len(stats) : stats[j] = "rmsd" /\ dim \notin {Dims[1], Dims[2]}
    THEN CHOOSE j \in 1..Len(stats) : stats[j] = "rmsd"
    ELSE 0

\* The dataset after the loop has completed the first n entries of stats.
WithStatsAlong(ds, obs_var, sim_var, dim, stats, n, rnd) ==
    [ds EXCEPT !.vars =
        [k \in DOMAIN ds.vars \cup {stats[j] : j \in 1..n} |->
            IF k \in {stats[j] : j \in 1..n}
            THEN StatAlong(ds, k, obs_var, sim_var, dim, rnd)
            ELSE ds.vars[k]]]

\* ProfilesMethods.calculate_stats(obs_var, sim_var, dim, stats) on a dataset
\* whose variables have the dimensions Dims and whose stats are keys of func.
calculate_stats_dim(ds, obs_var, sim_var, dim, stats, rnd) ==
    IF ~ AssertHolds(obs_var, sim_var, ds)
    THEN Fail("calculate_stats", "AssertionError", ds)
    ELSE IF RaisesAt(stats, dim) # 0
    THEN Fail("calculate_stats", "ValueError",
              WithStatsAlong(ds, obs_var, sim_var, dim, stats,
                             RaisesAt(stats, dim) - 1, rnd))
    ELSE Ok("calculate_stats",
            WithStatsAlong(ds, obs_var, sim_var, dim, stats, Len(stats), rnd))

\* The variables of the datasets: two times, two points, values 0 and 1.
Fields == [1..2 -> [1..2 -> {Zero, One}]]

\* A merged profile at two times.
FieldProfile(obs, sim) ==
    Profile([j \in 1..2 |-> Int2V(j - 1)],
            [k \in {"v", "velsurf_mag"} |-> IF k = "v" THEN obs ELSE sim],
            "Glacier X", 0)

InitDim ==
    /\ xs = <<>>
    /\ ys = <<>>
    /\ dtype = "float"
    /\ obj = NoDataset
    /\ \E obs \in Fields, sim \in Fields : prof = FieldProfile(obs, sim)
    /\ call = NoCall
    /\ ret = Outcome(NoReturn)
    /\ NoPipeline

\* The values of dim a caller passes: the two dimensions of the variables and
\* one they do not have.
DimArgs == {"profile_axis", "time", "exp_id"}

\* prof.profiles.calculate_stats(dim=dim, stats=stats)
CalculateStatsDim ==
    /\ call.op = "none"
    /\ \E dim \in DimArgs, rnd \in CorrRoundings,
          st \in {<<"rmsd">>, <<"pearson_r">>, <<"rmsd", "pearson_r">>,
                  <<"pearson_r", "rmsd">>} :
          /\ MethodResult(calculate_stats_dim(prof, "v", "velsurf_mag", dim, st, rnd))
          /\ call' = [op |-> "calculate_stats", obs_var |-> "v",
                      sim_var |-> "velsurf_mag", dim |-> dim, stats |-> st]
    /\ UNCHANGED <<xs, ys, dtype, obj, obs_ds, sim_ds, inv, main>>

NextDim == CalculateStatsDim

SpecDim == InitDim /\ [][NextDim]_vars

-----------------------------------------------------------------------------
(* ice mass fluxes *)

\* The density of ice, 917.0 kg m-3: 917 in units of 1e-12 Gt m-3, the
\* units the fluxes below are kept in.
IceDensity == 917

\* The observed velocities with their error components.
DsVelocity ==
    [name |-> "velocity", gx |-> <<0, 10>>, gy |-> <<0, 10>>,
     vars |-> [k \in {"vx", "vy", "vx_err", "vy_err"} |->
                 IF k = "vx" THEN GridVar([ij \in (1..2) \X (1..2) |-> ij[1]])
                 ELSE IF k = "vy" THEN GridVar([ij \in (1..2) \X (1..2) |-> ij[2]])
                 ELSE IF k = "vx_err" THEN GridVar([ij \in (1..2) \X (1..2) |-> 1])
                 ELSE GridVar([ij \in (1..2) \X (1..2) |-> 0 - ij[1]])]]

\* The ice thickness and its error on the grid of the velocities
\* (interp_like(velocity_ds)).
DsThickness ==
    [name |-> "thickness", gx |-> <<0, 10>>, gy |-> <<0, 10>>,
     vars |-> [k \in {"thickness", "errbed"} |->
                 IF k = "thickness" THEN GridVar([ij \in (1..2) \X (1..2) |-> ij[1] + ij[2]])
                 ELSE GridVar([ij \in (1..2) \X (1..2) |-> ij[2]])]]

\* The simulated velocities with the simulated thickness.
DsExp ==
    [name |-> "exp", gx |-> <<0, 10>>, gy |-> <<0, 10>>,
     vars |-> [k \in {"velsurf_mag", "uvelsurf", "vvelsurf", "thk"} |->
                 IF k = "velsurf_mag"
                 THEN GridVar([ij \in (1..2) \X (1..2) |-> ij[1] + 2 * ij[2]])
                 ELSE IF k = "uvelsurf" THEN GridVar([ij \in (1..2) \X (1..2) |-> 2 * ij[1]])
                 ELSE IF k = "vvelsurf" THEN GridVar([ij \in (1..2) \X (1..2) |-> ij[2]])
                 ELSE GridVar([ij \in (1..2) \X (1..2) |-> 3])]]

\* The keyword arguments of add_fluxes.  An absent error_vars (None) is the
\* empty dictionary, an absent thickness_ds (None) is NoDataset.
FluxKwargs(thickness_var, velocity_vars, flux_vars, error_vars, thickness_ds) ==
    [thickness_var |-> thickness_var, velocity_vars |-> velocity_vars,
     flux_vars |-> flux_vars, error_vars |-> error_vars,
     thickness_ds |-> thickness_ds]

DefaultVelocityVars == [x |-> "vx", y |-> "vy"]

DefaultFluxVars ==
    [x |-> "ice_mass_flux_x", y |-> "ice_mass_flux_y",
     xe |-> "ice_mass_flux_err_x", ye |-> "ice_mass_flux_err_y"]

NoErrorVars == <<>>

\* velocity_ds.fluxes.add_fluxes(thickness_ds=thickness_ds)
VelocityFluxKwargs ==
    FluxKwargs("thickness", DefaultVelocityVars, DefaultFluxVars, NoErrorVars, DsThickness)

\* exp_ds.fluxes.add_fluxes(thickness_var="thk", velocity_vars=..., flux_vars=...)
ExpFluxKwargs ==
    FluxKwargs("thk", [x |-> "uvelsurf", y |-> "vvelsurf"],
               [x |-> "sim_ice_mass_flux_x", y |-> "sim_ice_mass_flux_y"],
               NoErrorVars, NoDataset)

\* np.all(dx == dx[0])
Uniform(g) == \A i \in 1..(Len(g) - 1) : g[i + 1] - g[i] = g[2] - g[1]

\* f"{direction}e"
ErrKey(direction) == IF direction = "x" THEN "xe" ELSE "ye"

\* ds[velocity_var] * thickness * resolution * ice_density at every node
Flux(vel, thk, resolution) ==
    GridVar([ij \in DOMAIN vel.val |->
                 vel.val[ij] * thk.val[ij] * resolution * IceDensity])

\* flux_da * sqrt(err ** 2 * errbed ** 2), the norms being 1
FluxErr(flux_da, err, errbed) ==
    GridVar([ij \in DOMAIN flux_da.val |->
                 flux_da.val[ij] * Abs(err.val[ij]) * Abs(errbed.val[ij])])

\* The dataset the thickness is read from.
ThicknessOf(ds, a) == IF a.thickness_ds = NoDataset THEN ds ELSE a.thickness_ds

\* A lookup of add_fluxes fails: a variable the arguments name is not in the
\* dataset it is read from, or flux_vars has no name for an error flux.
FluxKeyError(ds, a) ==
    \/ a.thickness_var \notin DOMAIN ThicknessOf(ds, a).vars
    \/ \E d \in {"x", "y"} : a.velocity_vars[d] \notin DOMAIN ds.vars
    \/ /\ DOMAIN a.error_vars # {}
       /\ \/ \E d \in {"x", "y"} : a.error_vars[d] \notin DOMAIN ds.vars
          \/ "errbed" \notin DOMAIN ThicknessOf(ds, a).vars
          \/ \E d \in {"x", "y"} : ErrKey(d) \notin DOMAIN a.flux_vars

\* What one pass of the loop over the directions puts into das: the flux and
\* its error when error_vars is given, and nothing when it is not.
FluxEntries(ds, a, direction) ==
    LET flux_da == Flux(ds.vars[a.velocity_vars[direction]],
                        ThicknessOf(ds, a).vars[a.thickness_var],
                        ds.gx[2] - ds.gx[1])
    IN  IF DOMAIN a.error_vars = {} THEN <<>>
        ELSE (a.flux_vars[ErrKey(direction)] :>
                FluxErr(flux_da, ds.vars[a.error_vars[direction]],
                        ThicknessOf(ds, a).vars["errbed"]))
             @@ (a.flux_vars[direction] :> flux_da)

\* ds.assign(das).pint.dequantify(): a new dataset with the variables of ds
\* and those of das.
Assign(ds, das) ==
    [name |-> "assign", gx |-> ds.gx, gy |-> ds.gy, vars |-> das @@ ds.vars]

\* self.add_fluxes(**a) of the accessor whose _obj is ds.  The outcome holds
\* the dataset _obj refers to after the call, which is also what the call
\* returns.
add_fluxes(ds, a) ==
    IF ~ (Uniform(ds.gx) /\ Uniform(ds.gy)) THEN Fail("add_fluxes", "AssertionError", ds)
    ELSE IF FluxKeyError(ds, a) THEN Fail("add_fluxes", "KeyError", ds)
    ELSE Ok("add_fluxes", Assign(ds, FluxEntries(ds, a, "y") @@ FluxEntries(ds, a, "x")))

\* The dataset add_fluxes was invoked on, after the call.
add_fluxes_obj_Assigned(ds, a) ==
    IF add_fluxes(ds, a).exc = "none"
    THEN [add_fluxes(ds, a).ds EXCEPT !.name = ds.name]
    ELSE ds

add_fluxes_obj(ds, a) == ds

\* The datasets an accessor is created for and the arguments it is called
\* with.
FluxDatasets == {DsVelocity, DsExp}

FluxArgs ==
    {FluxKwargs(tv, vv, fv, ev, tds) :
        tv \in {"thickness", "thk"},
        vv \in {DefaultVelocityVars, ExpFluxKwargs.velocity_vars},
        fv \in {DefaultFluxVars, ExpFluxKwargs.flux_vars},
        ev \in {NoErrorVars, [x |-> "vx_err", y |-> "vy_err"]},
        tds \in {NoDataset, DsThickness}}

InitFlux ==
    /\ xs = <<>>
    /\ ys = <<>>
    /\ dtype = "float"
    /\ obj \in FluxDatasets
    /\ prof = NoProfile
    /\ call = NoCall
    /\ ret = Outcome(NoReturn)
    /\ NoPipeline

\* obj.fluxes.add_fluxes(**a), through the accessor of one dataset.
AddFluxes ==
    /\ \E a \in FluxArgs :
          /\ obj' = add_fluxes(obj, a).ds
          /\ ret' = Outcome(add_fluxes(obj, a))
          /\ call' = [op |-> "add_fluxes", args |-> a]
    /\ UNCHANGED <<xs, ys, dtype, prof, obs_ds, sim_ds, inv, main>>

NextFlux == AddFluxes

SpecFlux == InitFlux /\ [][NextFlux]_vars

-----------------------------------------------------------------------------
(* the profile pipeline *)

\* Most invocations of the pipeline in flight at once.
MaxInvocations == 2

\* The observed velocities: speed v and its components.
DsObs ==
    [name |-> "obs", gx |-> <<0, 10>>, gy |-> <<0, 10>>,
     vars |-> [k \in {"v", "vx", "vy"} |->
                 IF k = "v" THEN GridVar([ij \in (1..2) \X (1..2) |-> 2 * ij[1] + ij[2]])
                 ELSE IF k = "vx" THEN GridVar([ij \in (1..2) \X (1..2) |-> ij[1]])
                 ELSE GridVar([ij \in (1..2) \X (1..2) |-> ij[2]])]]

\* The simulated velocities.
DsSim ==
    [name |-> "sim", gx |-> <<0, 10>>, gy |-> <<0, 10>>,
     vars |-> [k \in {"velsurf_mag", "uvelsurf", "vvelsurf"} |->
                 IF k = "velsurf_mag"
                 THEN GridVar([ij \in (1..2) \X (1..2) |-> ij[1] + 2 * ij[2]])
                 ELSE IF k = "uvelsurf" THEN GridVar([ij \in (1..2) \X (1..2) |-> 2 * ij[1]])
                 ELSE GridVar([ij \in (1..2) \X (1..2) |-> ij[2]])]]

\* A row of the profiles table: a LineString (two points or more, no point
\* twice) with its name and id.
Line(px, py, pname, pid) ==
    [xs |-> px, ys |-> py, profile_name |-> pname, profile_id |-> pid]

PipeProfiles ==
    {Line(<<0, 10>>, <<0, 0>>, "Glacier A", 0),
     Line(<<0, 5, 10>>, <<0, 0, 0>>, "Glacier B", 1)}

\* The three entry points: process_profile of glacier_flow_tools, and
\* process_profile_xr and process_profile of pypism.
Entries == {"process_profile", "process_profile_xr", "process_profile_df"}

\* stats_kwargs = {}: calculate_stats runs with the defaults of its signature.
NoKwargs == [obs_var |-> "v", sim_var |-> "velsurf_mag"]

\* The keyword arguments of process_profile: its defaults, the call of
\* compute_profiles.py, and that call without compute_profile_normal.
Kwargs ==
    {[stats |-> <<"rmsd", "pearson_r">>, compute_profile_normal |-> FALSE,
      stats_kwargs |-> NoKwargs],
     [stats |-> <<"rmsd", "pearson_r">>, compute_profile_normal |-> TRUE,
      stats_kwargs |-> [obs_var |-> "v_normal", sim_var |-> "velsurf_normal"]],
     [stats |-> <<"rmsd", "pearson_r">>, compute_profile_normal |-> FALSE,
      stats_kwargs |-> [obs_var |-> "v_normal", sim_var |-> "velsurf_normal"]]}

\* The pypism entry points take no keyword arguments of this kind.
KwargsOf(entry) ==
    IF entry = "process_profile" THEN Kwargs
    ELSE {[stats |-> <<"rmsd">>, compute_profile_normal |-> FALSE,
           stats_kwargs |-> NoKwargs]}

\* The keyword arguments of the extract_and_prepare call on obs_ds.
ObsArgs(p, kw) ==
    [profile_name |-> p.profile_name, profile_id |-> p.profile_id,
     data_vars |-> None,
     normal_var |-> "v_normal", normal_error_var |-> "v_err_normal",
     normal_component_vars |-> [x |-> "vx", y |-> "vy"],
     normal_component_error_vars |-> [x |-> "vx_err", y |-> "vy_err"],
     compute_profile_normal |-> kw.compute_profile_normal]

\* The keyword arguments of the extract_and_prepare call on sim_ds; the
\* error variables are the defaults of extract_profile.
SimArgs(p, kw) ==
    [profile_name |-> p.profile_name, profile_id |-> p.profile_id,
     data_vars |-> None,
     normal_var |-> "velsurf_normal", normal_error_var |-> "v_err_normal",
     normal_component_vars |-> [x |-> "uvelsurf", y |-> "vvelsurf"],
     normal_component_error_vars |-> [x |-> "vx_err", y |-> "vy_err"],
     compute_profile_normal |-> kw.compute_profile_normal]

\* extract_and_prepare(ds, **a): ds.profiles.extract_profile(x, y, **a), where
\* x, y = map(np.asarray, profile["geometry"].xy) are float64 arrays.  The
\* extract_profile of pypism is the one of glacier_flow_tools without the
\* compute_profile_normal block.
extract_and_prepare(ds, p, a, rnd) ==
    extract_profile(ds, p.xs, p.ys, "float", a, rnd, 0)

\* xr.merge([obs_profile, sims_profile]): the variables of both; a variable
\* in both must hold the same values.
merge(a, b) ==
    IF \E k \in DOMAIN a.vars \cap DOMAIN b.vars : a.vars[k] # b.vars[k]
    THEN Fail("merge", "MergeError", NoProfile)
    ELSE Ok("merge", [a EXCEPT !.vars = a.vars @@ b.vars])

\* self._obj after extract_profile returned the profile r: the method assigns to the
\* dataset it builds, never to the dataset it reads.
extract_profile_obj_WrittenBack(ds, r) ==
    IF ~ r.exists THEN ds
    ELSE [ds EXCEPT !.vars =
            [k \in DOMAIN ds.vars |->
                IF k \in DOMAIN r.vars
                THEN [spatial |-> FALSE, val |-> r.vars[k]]
                ELSE ds.vars[k]]]

extract_profile_obj(ds, r) == ds

\* CustomDatasetMethods.calculate_stats of pypism on the profile dataset ds:
\* its func holds rmsd alone.
calculate_stats_xr(ds, obs_var, sim_var, stats) ==
    IF ~ AssertHolds(obs_var, sim_var, ds)
    THEN Fail("calculate_stats", "AssertionError", ds)
    ELSE IF stats = <<>> THEN Ok("calculate_stats", ds)
    ELSE IF \/ CompletedOf(stats, {"rmsd"}) = 0
            \/ obs_var \notin DOMAIN ds.vars
            \/ sim_var \notin DOMAIN ds.vars
    THEN Fail("calculate_stats", "KeyError", ds)
    ELSE IF CompletedOf(stats, {"rmsd"}) < Len(stats)
    THEN Fail("calculate_stats", "KeyError",
              WithStats(ds, obs_var, sim_var,
                        SubSeq(stats, 1, CompletedOf(stats, {"rmsd"})), 0))
    ELSE Ok("calculate_stats", WithStats(ds, obs_var, sim_var, stats, 0))

\* merge_on_intersection(obs_df, sims_df) for the frames of two profiles
\* along the same line: the rows pair up one to one on the shared columns.
merge_on_intersection(df1, df2) == df1 @@ df2

\* What an invocation returns, or the exception that ends it.
NoResult == [exc |-> "none", ds |-> NoProfile]

\* An invocation that was submitted and has not started: its arguments, the
\* rounding of float64 on them, its position and its local variables.
Submitted(entry, p, kw, rnd) ==
    [entry |-> entry, profile |-> p, kw |-> kw, rnd |-> rnd, pc |-> "obs",
     obs_profile |-> NoProfile, sims_profile |-> NoProfile,
     merged_profile |-> NoProfile, stats |-> <<>>, ret |-> NoResult]

\* An exception leaves the function.
Raise(v, e) == [v EXCEPT !.pc = "raised", !.ret = [exc |-> e, ds |-> NoProfile]]

\* obs_profile = extract_and_prepare(obs_ds, ...), r being what the call did.
ObsAssigned(v, r) ==
    IF r.exc # "none" THEN Raise(v, r.exc)
    ELSE [v EXCEPT !.pc = "sims", !.obs_profile = r.ds]

\* sims_profile = extract_and_prepare(sim_ds, ...)
SimsAssigned(v, r) ==
    IF r.exc # "none" THEN Raise(v, r.exc)
    ELSE [v EXCEPT !.pc = "merge", !.sims_profile = r.ds]

\* merged_profile = xr.merge([obs_profile, sims_profile])
MergedAssigned(v, r) ==
    IF r.exc # "none" THEN Raise(v, r.exc)
    ELSE [v EXCEPT !.pc = "stats", !.merged_profile = r.ds]

\* merged_profile.profiles.calculate_stats(...) writes into merged_profile;
\* return merged_profile
StatsReturned(v, r) ==
    IF r.exc # "none" THEN Raise([v EXCEPT !.merged_profile = r.ds], r.exc)
    ELSE [v EXCEPT !.pc = "done", !.merged_profile = r.ds,
                   !.ret = [exc |-> "none", ds |-> r.ds]]

\* for s in ["rmsd", "pearson_r"]: sims_profile[s] = d, and
\* return merged_profile, stats_profile, where row is the one row of stats
\* (one experiment).
FrameStatsReturned(v, row) ==
    [v EXCEPT !.pc = "done",
              !.sims_profile.vars = [k \in {"rmsd", "pearson_r"} |-> row[k]] @@ @,
              !.stats = row,
              !.ret = [exc |-> "none", ds |-> v.merged_profile]]

\* The first statement of the three entry points.
obs_profile(v, ds) ==
    IF v.pc # "obs" THEN v
    ELSE ObsAssigned(v, extract_and_prepare(ds, v.profile, ObsArgs(v.profile, v.kw),
                                            v.rnd.normals))

sims_profile(v, ds) ==
    IF v.pc # "sims" THEN v
    ELSE SimsAssigned(v, extract_and_prepare(ds, v.profile, SimArgs(v.profile, v.kw),
                                             v.rnd.normals))

merged_profile(v) ==
    IF v.pc # "merge" THEN v
    ELSE MergedAssigned(v, merge(v.obs_profile, v.sims_profile))

\* The statistics and the return statement of each entry point.
stats(v) ==
    IF v.pc # "stats" THEN v
    ELSE IF v.entry = "process_profile"
    THEN StatsReturned(v, calculate_stats(v.merged_profile, v.kw.stats_kwargs.obs_var,
                                          v.kw.stats_kwargs.sim_var, v.kw.stats,
                                          v.rnd.corr))
    ELSE IF v.entry = "process_profile_xr"
    THEN StatsReturned(v, calculate_stats_xr(v.merged_profile, "v", "velsurf_mag",
                                             <<"rmsd">>))
    ELSE FrameStatsReturned(v,
             calculate_stats_df(merge_on_intersection(v.obs_profile.vars,
                                                      v.sims_profile.vars),
                                "velsurf_mag", "v"))

\* process_profile(profile, obs_ds, sim_ds, ...) run from its first statement
\* to its last without another invocation in between.
process_profile(v, obs, sim) == stats(merged_profile(sims_profile(obs_profile(v, obs), sim)))

\* How float64 rounds on the profile p: in compute_normals, and in xr.corr.
PipeRoundings(p) ==
    {[normals |-> f, corr |-> c] : f \in RoundingSeqs(p.xs, p.ys), c \in CorrRoundings}

\* The invocations a client can submit of entry point entry with the keyword
\* arguments kw.
Tasks(entry, kw) ==
    UNION {{Submitted(entry, p, kw, rnd) : rnd \in PipeRoundings(p)} : p \in PipeProfiles}

\* The invocations of one parallel section: one entry point and one choice of
\* keyword arguments for all of them, one profile each.  Rounding is a
\* function of the operands: two invocations on one profile round alike.
InvocationsOf(entry, kw) ==
    {w \in [1..MaxInvocations -> Tasks(entry, kw)] :
        \A i, j \in 1..MaxInvocations :
            w[i].profile = w[j].profile => w[i].rnd = w[j].rnd}

InitPipe ==
    /\ xs = <<>>
    /\ ys = <<>>
    /\ dtype = "float"
    /\ obj = NoDataset
    /\ prof = NoProfile
    /\ call = NoCall
    /\ ret = Outcome(NoReturn)
    /\ obs_ds = DsObs
    /\ sim_ds = DsSim
    /\ main = NoMain
    /\ \E entry \in Entries : \E kw \in KwargsOf(entry) :
          inv \in InvocationsOf(entry, kw)

\* Invocation i runs obs_profile = extract_and_prepare(obs_ds, ...).
ExtractObs(i) ==
    /\ inv[i].pc = "obs"
    /\ inv' = [inv EXCEPT ![i] = obs_profile(inv[i], obs_ds)]
    /\ obs_ds' = extract_profile_obj(obs_ds, inv'[i].obs_profile)
    /\ UNCHANGED <<xs, ys, dtype, obj, prof, call, ret, sim_ds, main>>

\* Invocation i runs sims_profile = extract_and_prepare(sim_ds, ...).
ExtractSims(i) ==
    /\ inv[i].pc = "sims"
    /\ inv' = [inv EXCEPT ![i] = sims_profile(inv[i], sim_ds)]
    /\ sim_ds' = extract_profile_obj(sim_ds, inv'[i].sims_profile)
    /\ UNCHANGED <<xs, ys, dtype, obj, prof, call, ret, obs_ds, main>>

\* Invocation i runs merged_profile = xr.merge([obs_profile, sims_profile]).
Merge(i) ==
    /\ inv[i].pc = "merge"
    /\ inv' = [inv EXCEPT ![i] = merged_profile(inv[i])]
    /\ UNCHANGED <<xs, ys, dtype, obj, prof, call, ret, obs_ds, sim_ds, main>>

\* Invocation i computes the statistics and returns.
Stats(i) ==
    /\ inv[i].pc = "stats"
    /\ inv' = [inv EXCEPT ![i] = stats(inv[i])]
    /\ UNCHANGED <<xs, ys, dtype, obj, prof, call, ret, obs_ds, sim_ds, main>>

NextPipe ==
    \/ \E i \in DOMAIN inv : ExtractObs(i)
    \/ \E i \in DOMAIN inv : ExtractSims(i)
    \/ \E i \in DOMAIN inv : Merge(i)
    \/ \E i \in DOMAIN inv : Stats(i)

SpecPipe == InitPipe /\ [][NextPipe]_vars

-----------------------------------------------------------------------------
(* the compute_profiles script *)

\* A row of the profiles table whose geometry is empty.
EmptyLine == Line(<<>>, <<>>, "Glacier E", 2)

\* The rows of the profiles file: two profiles along which the velocities
\* differ, and the row without points.
MainProfiles ==
    {Line(<<0, 0>>, <<0, 10>>, "Glacier A", 0),
     Line(<<10, 10, 10>>, <<0, 5, 10>>, "Glacier B", 1),
     EmptyLine}

\* profiles_gp: the rows of the profiles file, each profile once, in the
\* order of the file.
ProfileTables ==
    {t \in UNION {[1..n -> MainProfiles] : n \in 1..MaxInvocations} :
        \A i, j \in DOMAIN t : t[i] = t[j] => i = j}

\* stats, compute_profile_normal and stats_kwargs of the submitted calls.
MainKwargs ==
    [stats |-> <<"rmsd", "pearson_r">>, compute_profile_normal |-> TRUE,
     stats_kwargs |-> [obs_var |-> "v_normal", sim_var |-> "velsurf_normal"]]

\* The script after the datasets are opened: its position, the option
\* thickness_url, the profiles table, the two dataset objects that were opened
\* as they are now, and the variables it has not assigned yet.
Started(thickness_url, profiles_gp) ==
    [pc |-> IF thickness_url THEN "add_fluxes_velocity" ELSE "submit",
     thickness_url |-> thickness_url, profiles_gp |-> profiles_gp,
     opened |-> [velocity_ds |-> DsObs, exp_ds |-> DsExp],
     obs_sims_profiles |-> <<>>, stats_profiles |-> <<>>, exc |-> "none"]

\* An exception leaves the script.
Aborted(m, e) == [m EXCEPT !.pc = "raised", !.exc = e]

\* The script is in the loop that submits the tasks.
Submitting_Early(m) == m.pc \in {"add_fluxes_velocity", "add_fluxes_exp", "submit"}

Submitting(m) == m.pc = "submit"

\* client.gather(futures): the results in the order of futures, or the
\* exception of the first future that failed.
gather(futures) ==
    IF \E i \in DOMAIN futures : futures[i].pc = "raised"
    THEN [exc |-> futures[CHOOSE i \in DOMAIN futures :
                            /\ futures[i].pc = "raised"
                            /\ \A j \in 1..(i - 1) : futures[j].pc # "raised"].ret.exc,
          results |-> <<>>]
    ELSE [exc |-> "none", results |-> [i \in DOMAIN futures |-> futures[i].ret.ds]]

\* p.mean(["profile_axis"], skipna=True).to_dask_dataframe(): a frame of one
\* row with the profile_id coordinate, the mean along profile_axis of every
\* numeric variable that has this dimension, and the other numeric variables
\* as they are.  The string variable profile_name and the coordinates along
\* profile_axis are not in it.
MeanFrame(ds) ==
    <<[k \in DOMAIN ds.vars \cup {"profile_id"} |->
         IF k = "profile_id" THEN ds.profile_id
         ELSE IF k \in Funcs THEN ds.vars[k]
         ELSE nanmean(ds.vars[k])]>>

\* The rows of df2 that agree with row on the columns both have, each joined
\* with row.
RECURSIVE MatchesOf(_, _)
MatchesOf(row, df2) ==
    IF df2 = <<>> THEN <<>>
    ELSE (IF \A k \in DOMAIN row \cap DOMAIN Head(df2) : row[k] = Head(df2)[k]
          THEN <<row @@ Head(df2)>> ELSE <<>>)
         \o MatchesOf(row, Tail(df2))

\* pd.merge(df1, df2, on=intersection_keys), the frames being sequences of
\* rows.
RECURSIVE pd_merge(_, _)
pd_merge(df1, df2) ==
    IF df1 = <<>> THEN <<>> ELSE MatchesOf(Head(df1), df2) \o pd_merge(Tail(df1), df2)

\* dd.concat(frames)
RECURSIVE dd_concat(_)
dd_concat(frames) ==
    IF frames = <<>> THEN <<>> ELSE Head(frames) \o dd_concat(Tail(frames))

\* concat(profiles_df, profiles_ds): the profiles table merged with the mean
\* of every profile dataset.
concat_ByPosition(profiles_df, profiles_ds) ==
    [j \in 1..Len(profiles_ds) |-> profiles_df[j] @@ MeanFrame(profiles_ds[j])[1]]

concat(profiles_df, profiles_ds) ==
    dd_concat([j \in 1..Len(profiles_ds) |->
                  pd_merge(profiles_df, MeanFrame(profiles_ds[j]))])

InitMain ==
    /\ xs = <<>>
    /\ ys = <<>>
    /\ dtype = "float"
    /\ obj = NoDataset
    /\ prof = NoProfile
    /\ call = NoCall
    /\ ret = Outcome(NoReturn)
    /\ obs_ds = DsObs
    /\ sim_ds = DsExp
    /\ inv = <<>>
    /\ \E thickness_url \in BOOLEAN, profiles_gp \in ProfileTables :
          main = Started(thickness_url, profiles_gp)

\* velocity_ds = velocity_ds.fluxes.add_fluxes(thickness_ds=thickness_ds)
AddFluxesVelocity ==
    /\ main.pc = "add_fluxes_velocity"
    /\ IF add_fluxes(obs_ds, VelocityFluxKwargs).exc # "none"
       THEN /\ main' = Aborted(main, add_fluxes(obs_ds, VelocityFluxKwargs).exc)
            /\ obs_ds' = obs_ds
       ELSE /\ main' = [main EXCEPT !.pc = "add_fluxes_exp",
                                    !.opened.velocity_ds =
                                        add_fluxes_obj(@, VelocityFluxKwargs)]
            /\ obs_ds' = add_fluxes(obs_ds, VelocityFluxKwargs).ds
    /\ UNCHANGED <<xs, ys, dtype, obj, prof, call, ret, sim_ds, inv>>

\* exp_ds = exp_ds.fluxes.add_fluxes(thickness_var="thk", ...)
AddFluxesExp ==
    /\ main.pc = "add_fluxes_exp"
    /\ IF add_fluxes(sim_ds, ExpFluxKwargs).exc # "none"
       THEN /\ main' = Aborted(main, add_fluxes(sim_ds, ExpFluxKwargs).exc)
            /\ sim_ds' = sim_ds
       ELSE /\ main' = [main EXCEPT !.pc = "submit",
                                    !.opened.exp_ds = add_fluxes_obj(@, ExpFluxKwargs)]
            /\ sim_ds' = add_fluxes(sim_ds, ExpFluxKwargs).ds
    /\ UNCHANGED <<xs, ys, dtype, obj, prof, call, ret, obs_ds, inv>>

\* One pass of the loop over profiles_gp: client.submit(process_profile, p,
\* velocity_ds_scattered, exp_ds_scattered, ...); futures.append(future).
Submit ==
    /\ Submitting(main)
    /\ Len(inv) < Len(main.profiles_gp)
    /\ \E rnd \in PipeRoundings(main.profiles_gp[Len(inv) + 1]) :
          inv' = Append(inv, Submitted("process_profile",
                                       main.profiles_gp[Len(inv) + 1], MainKwargs, rnd))
    /\ UNCHANGED <<xs, ys, dtype, obj, prof, call, ret, obs_ds, sim_ds, main>>

\* The loop is over: futures_computed = client.compute(futures).
Compute ==
    /\ main.pc = "submit"
    /\ Len(inv) = Len(main.profiles_gp)
    /\ main' = [main EXCEPT !.pc = "gather"]
    /\ UNCHANGED <<xs, ys, dtype, obj, prof, call, ret, obs_ds, sim_ds, inv>>

\* obs_sims_profiles = client.gather(futures_computed), which returns when
\* every future has finished and raises when one has failed.
Gather ==
    /\ main.pc = "gather"
    /\ \/ \E i \in DOMAIN inv : inv[i].pc = "raised"
       \/ \A i \in DOMAIN inv : inv[i].pc = "done"
    /\ main' = IF gather(inv).exc # "none" THEN Aborted(main, gather(inv).exc)
               ELSE [main EXCEPT !.pc = "concat",
                                 !.obs_sims_profiles = gather(inv).results]
    /\ UNCHANGED <<xs, ys, dtype, obj, prof, call, ret, obs_ds, sim_ds, inv>>

\* stats_profiles = client.gather(client.submit(concat, profiles,
\* obs_sims_profiles)).compute().reset_index(drop=True)
Concat ==
    /\ main.pc = "concat"
    /\ main' = [main EXCEPT !.pc = "plot",
                            !.stats_profiles =
                                concat(main.profiles_gp, main.obs_sims_profiles)]
    /\ UNCHANGED <<xs, ys, dtype, obj, prof, call, ret, obs_ds, sim_ds, inv>>

\* plot_glacier for every row of stats_profiles and plot_profile for every
\* dataset of obs_sims_profiles.
Plot ==
    /\ main.pc = "plot"
    /\ main' = [main EXCEPT !.pc = "done"]
    /\ UNCHANGED <<xs, ys, dtype, obj, prof, call, ret, obs_ds, sim_ds, inv>>

NextMain ==
    \/ AddFluxesVelocity
    \/ AddFluxesExp
    \/ Submit
    \/ Compute
    \/ \E i \in DOMAIN inv : ExtractObs(i)
    \/ \E i \in DOMAIN inv : ExtractSims(i)
    \/ \E i \in DOMAIN inv : Merge(i)
    \/ \E i \in DOMAIN inv : Stats(i)
    \/ Gather
    \/ Concat
    \/ Plot

SpecMain == InitMain /\ [][NextMain]_vars

-----------------------------------------------------------------------------
(* properties *)

\* The two points normal and tangential are applied to.
P0 == <<xs[1], ys[1]>>

P1 == <<xs[2], ys[2]>>

\* Square of the Euclidean norm of the vector (a, b).
Norm2(a, b) == Add(Mul(a, a), Mul(b, b))

\* Dot product of the integer vector d with the vector (a, b).
DotInt(d, a, b) == Add(Mul(Int2V(d[1]), a), Mul(Int2V(d[2]), b))

\* Squared distance between points i and j of the polyline.
Dist2(i, j) == (xs[i] - xs[j]) * (xs[i] - xs[j]) + (ys[i] - ys[j]) * (ys[i] - ys[j])

\* Square of the j-th entry of the profile axis (an integer).
AxisSq(j) == Mul(prof.axis[j], prof.axis[j]).p

Extracted == call.op = "extract_profile" /\ ret.exc = "none"

\* C1: for every non-empty polyline the profile axis of an extracted profile
\* starts at 0, never decreases, and grows from each point to the next by the
\* distance between the two points.  With a = axis[j]^2, b = axis[j-1]^2 and
\* D the squared distance, sqrt(a) - sqrt(b) = sqrt(D) is the integer
\* statement a - b - D >= 0 and (a - b - D)^2 = 4bD.
C1_AxisIsCumulativeChord ==
    prof.exists =>
        /\ SameVal(prof.axis[1], Zero)
        /\ \A j \in 2..Len(xs) :
              LET e == AxisSq(j) - AxisSq(j - 1) - Dist2(j, j - 1)
              IN  /\ AxisSq(j) >= AxisSq(j - 1)
                  /\ e >= 0
                  /\ e * e = 4 * AxisSq(j - 1) * Dist2(j, j - 1)

\* C2: the profile along (0,0), (10,0), (10,10) through the dataset whose one
\* variable is 5 everywhere has the axis [0, 10, 20] and the variable
\* [5, 5, 5].
C2_RightAngleProfile ==
    (/\ Extracted
     /\ xs = <<0, 10, 10>> /\ ys = <<0, 0, 10>>
     /\ obj = DsConst
     /\ "v" \in Requested(obj, call.args.data_vars))
    => /\ Len(prof.axis) = 3
       /\ SameVal(prof.axis[1], Int2V(0))
       /\ SameVal(prof.axis[2], Int2V(10))
       /\ SameVal(prof.axis[3], Int2V(20))
       /\ "v" \in DOMAIN prof.vars
       /\ \A j \in 1..3 : SameVal(prof.vars["v"][j], Int2V(5))

\* The names an extracted profile holds besides its axis.
ProfileNames == ProfileDataVars(prof) \cup {"profile_id"}

\* C3: for a polyline of N >= 1 points and any requested subset of the
\* dataset's variables, extract_profile returns a profile whose axis, and
\* every variable along it, has N entries; with the empty subset the profile
\* holds nx, ny, profile_name and profile_id and nothing else.
C3_AxisLength ==
    (/\ call.op = "extract_profile"
     /\ Len(xs) >= 1
     /\ Requested(obj, call.args.data_vars) \subseteq DataVars(obj))
    => /\ ret.exc = "none"
       /\ Len(prof.axis) = Len(xs)
       /\ \A k \in DOMAIN prof.vars : Len(prof.vars[k]) = Len(xs)
       /\ call.args.data_vars = Names({})
            => ProfileNames = {"nx", "ny", "profile_name", "profile_id"}

C3_Witness ==
    /\ Extracted
    /\ call.args.data_vars = Names({})
    /\ Len(xs) = 3
    /\ Len(prof.axis) = 3

\* C4: for two distinct points, normal returns a vector of Euclidean norm 1
\* whose dot product with point1 - point0 is 0.
C4_NormalUnitPerpendicular ==
    (ret.op = "normal" /\ P0 # P1)
    => /\ SameVal(Norm2(ret.a[1], ret.b[1]), One)
       /\ SameVal(DotInt(<<P1[1] - P0[1], P1[2] - P0[2]>>, ret.a[1], ret.b[1]), Zero)

C4_Witness ==
    /\ ret.op = "normal"
    /\ P0[1] # P1[1] /\ P0[2] # P1[2]
    /\ ~ ret.a[1].nan
    /\ ValSign(ret.a[1]) # 0

\* C5: tangential returns point1 - point0 scaled to norm 1 when the points
\* differ, and the exact zero vector when they coincide.
C5_TangentialUnitOrZero ==
    ret.op = "tangential"
    => LET d == <<P1[1] - P0[1], P1[2] - P0[2]>>
       IN  IF P0 = P1
           THEN ret.a[1] = Zero /\ ret.b[1] = Zero
           ELSE /\ SameVal(Norm2(ret.a[1], ret.b[1]), One)
                /\ ValSign(DotInt(d, ret.a[1], ret.b[1])) = 1
                /\ SameVal(DotInt(<<-d[2], d[1]>>, ret.a[1], ret.b[1]), Zero)

C5_Witness ==
    /\ ret.op = "tangential"
    /\ P0 = P1
    /\ ret.a[1] = Zero /\ ret.b[1] = Zero

\* C6: for a polyline of N >= 2 points of which no two consecutive ones
\* coincide, every normal compute_normals returns has Euclidean norm 1.
C6_NormalsUnit ==
    (/\ ret.op = "compute_normals"
     /\ Len(xs) >= 2
     /\ \A j \in 2..Len(xs) : Dist2(j, j - 1) # 0)
    => /\ ret.exc = "none"
       /\ Len(ret.a) = Len(xs)
       /\ \A j \in 1..Len(xs) : SameVal(Norm2(ret.a[j], ret.b[j]), One)

\* Points i, j, k of the polyline lie on one line.
Collinear(i, j, k) ==
    (xs[j] - xs[i]) * (ys[k] - ys[i]) = (xs[k] - xs[i]) * (ys[j] - ys[i])

\* The polyline advances along one line: its points are collinear and every
\* segment points the way the first one does.
StraightLine ==
    /\ \A i, j, k \in 1..Len(xs) : Collinear(i, j, k)
    /\ \A j \in 2..Len(xs) :
          (xs[j] - xs[j - 1]) * (xs[2] - xs[1]) + (ys[j] - ys[j - 1]) * (ys[2] - ys[1]) > 0

\* C7: for a straight-line polyline of N >= 3 collinear points compute_normals
\* returns the same normal at every position.  The claim is stated on the
\* polylines it is meant for, distinct points in order along the line; a
\* violation there violates it for collinear points in general.
C7_CollinearNormalsEqual ==
    (/\ ret.op = "compute_normals"
     /\ Len(xs) >= 3
     /\ StraightLine)
    => /\ ret.exc = "none"
       /\ \A j \in 1..Len(xs) :
             SameVal(ret.a[j], ret.a[1]) /\ SameVal(ret.b[j], ret.b[1])

\* C8: compute_normals and compute_tangentials on fewer than two points raise
\* nothing and return the placeholder ([0], [0]).
C8_ShortPolylinePlaceholder ==
    (ret.op \in {"compute_normals", "compute_tangentials"} /\ Len(xs) < 2)
    => /\ ret.exc = "none"
       /\ ret.a = <<Zero>>
       /\ ret.b = <<Zero>>

C8_Witness ==
    /\ ret.op = "compute_tangentials"
    /\ Len(xs) = 1
    /\ ret.a = <<Zero>>

\* C9: extract_profile drops every requested variable that cannot be
\* resampled, a name absent from the dataset included, raises nothing, and
\* still extracts every other requested variable.
C9_UnresampledDropped ==
    (call.op = "extract_profile" /\ Len(xs) >= 1)
    => LET want == Requested(obj, call.args.data_vars)
           good == {k \in want \cap DataVars(obj) : obj.vars[k].spatial}
       IN  /\ ret.exc = "none"
           /\ good \subseteq DOMAIN prof.vars
           /\ \A k \in want \ good : k \notin DOMAIN prof.vars

\* C10: a call of add_normal_component that returns has written
\* x_component * nx + y_component * ny at every axis position into
\* normal_name and left every other variable, the axis and the identity of
\* the profile as they were; a call that raises has changed nothing.
C10_NormalComponent ==
    [][call'.op = "add_normal_component" =>
          IF ret'.exc = "none"
          THEN /\ DOMAIN prof'.vars = DOMAIN prof.vars \cup {call'.normal_name}
               /\ Len(prof'.vars[call'.normal_name]) = Len(prof.axis)
               /\ \A j \in 1..Len(prof.axis) :
                     SameVal(prof'.vars[call'.normal_name][j],
                             Add(Mul(prof.vars[call'.x_component][j], prof.vars["nx"][j]),
                                 Mul(prof.vars[call'.y_component][j], prof.vars["ny"][j])))
               /\ \A k \in DOMAIN prof.vars \ {call'.normal_name} :
                     prof'.vars[k] = prof.vars[k]
               /\ prof'.axis = prof.axis
               /\ prof'.profile_name = prof.profile_name
               /\ prof'.profile_id = prof.profile_id
          ELSE prof' = prof]_vars

C10_Witness ==
    /\ call.op = "add_normal_component"
    /\ ret.exc = "none"
    /\ Len(prof.axis) >= 2
    /\ \E j \in 1..Len(prof.axis) :
          /\ ~ prof.vars[call.normal_name][j].nan
          /\ ValSign(prof.vars[call.normal_name][j]) # 0
          /\ prof.vars["nx"][j].q # 0

\* The variable named n is a data variable of the profile.
Present(n) == n \in ProfileDataVars(prof)

\* C11: a call of add_normal_component or of calculate_stats that names a
\* variable absent from the dataset, as either of its two variables, fails
\* with an AssertionError.
C11_EitherAbsentAsserts ==
    /\ (call.op = "add_normal_component"
        /\ ~ (Present(call.x_component) /\ Present(call.y_component)))
       => ret.exc = "AssertionError"
    /\ (call.op = "calculate_stats"
        /\ ~ (Present(call.obs_var) /\ Present(call.sim_var)))
       => ret.exc = "AssertionError"

Wrote(stat) ==
    /\ call.op = "calculate_stats"
    /\ ret.exc = "none"
    /\ stat \in StatNames(call.stats)

\* The series the last call of calculate_stats read.
ObsSeries == prof.vars[call.obs_var]

SimSeries == prof.vars[call.sim_var]

\* The columns the last call of the legacy calculate_stats read.
Col1 == prof.vars[call.col1]

Col2 == prof.vars[call.col2]

\* The series s holds at least one value.
HasFinite(s) == \E j \in 1..Len(s) : ~ s[j].nan

\* C13 as stated: RMSD of any series against itself is 0 and RMSD is the
\* same with its arguments exchanged, in the labeled-array calculate_stats and
\* in the legacy one.
C13_RmsdSelfZeroSymmetric ==
    /\ Wrote("rmsd")
       => /\ SameVal(prof.vars["rmsd"], rmsd(SimSeries, ObsSeries))
          /\ ObsSeries = SimSeries => SameVal(prof.vars["rmsd"], Zero)
    /\ call.op = "calculate_stats_df"
       => /\ SameVal(ret.row.rmsd,
                     calculate_stats_df(prof.vars, call.col2, call.col1).rmsd)
          /\ Col1 = Col2 => SameVal(ret.row.rmsd, Zero)

\* C13, amended: RMSD is the same with its arguments exchanged; RMSD of a
\* series against itself is 0 if the series holds at least one value and, in
\* the legacy calculate_stats, has more than 2 rows (otherwise it is NaN).
C13_RmsdSelfZeroWhereDefined ==
    /\ Wrote("rmsd")
       => /\ SameVal(prof.vars["rmsd"], rmsd(SimSeries, ObsSeries))
          /\ ObsSeries = SimSeries
             => SameVal(prof.vars["rmsd"],
                        IF HasFinite(ObsSeries) THEN Zero ELSE NaN)
    /\ call.op = "calculate_stats_df"
       => /\ SameVal(ret.row.rmsd,
                     calculate_stats_df(prof.vars, call.col2, call.col1).rmsd)
          /\ Col1 = Col2
             => SameVal(ret.row.rmsd,
                        IF HasFinite(Col1) /\ Len(Col1) > 2 THEN Zero ELSE NaN)

C13_Witness ==
    /\ Wrote("rmsd")
    /\ call.obs_var = call.sim_var
    /\ Len(ObsSeries) = 3
    /\ ObsSeries[2].nan
    /\ prof.vars["rmsd"] = Zero

\* The values of the series s are not all the same.
NonConstant(s) ==
    \E i, j \in 1..Len(s) : ~ s[i].nan /\ ~ s[j].nan /\ s[i] # s[j]

\* The series s holds values, all the same.
Constant(s) == HasFinite(s) /\ ~ NonConstant(s)

\* C14: Pearson r of a non-constant series of more than 2 points against
\* itself is exactly 1, and it is NaN when either series is constant, in the
\* labeled-array calculate_stats and in the legacy one.
C14_PearsonSelfOneConstantNaN ==
    /\ Wrote("pearson_r")
       => /\ (ObsSeries = SimSeries /\ NonConstant(ObsSeries) /\ Len(ObsSeries) > 2)
             => SameVal(prof.vars["pearson_r"], One)
          /\ (Constant(ObsSeries) \/ Constant(SimSeries))
             => prof.vars["pearson_r"].nan
    /\ call.op = "calculate_stats_df"
       => /\ (Col1 = Col2 /\ NonConstant(Col1) /\ Len(Col1) > 2)
             => SameVal(ret.row.pearson_r, One)
          /\ (Constant(Col1) \/ Constant(Col2))
             => ret.row.pearson_r.nan

\* The profile holds the documented example.
Scenario ==
    prof.vars["v"] = ScenarioObs /\ prof.vars["velsurf_mag"] = ScenarioSim

\* The last call computed both statistics of the observed variable v and the
\* simulated variable velsurf_mag; StatRmsd and StatR are the results.
ComputedBoth ==
    \/ (Wrote("rmsd") /\ Wrote("pearson_r")
        /\ call.obs_var = "v" /\ call.sim_var = "velsurf_mag")
    \/ (call.op = "calculate_stats_df" /\ call.col1 = "velsurf_mag")

StatRmsd ==
    IF call.op = "calculate_stats" THEN prof.vars["rmsd"] ELSE ret.row.rmsd

StatR ==
    IF call.op = "calculate_stats" THEN prof.vars["pearson_r"] ELSE ret.row.pearson_r

\* lo/scale <= v <= hi/scale for a rational value v.
Between(v, lo, hi, scale) ==
    /\ ~ v.nan
    /\ v.q = 0
    /\ lo * v.den <= scale * v.p
    /\ scale * v.p <= hi * v.den

\* C15 as stated: for observed [1,2,3,4] and simulated [1,2,3,5] RMSD is 0.5
\* and Pearson r is 0.9939 to four decimals (r^2 between 0.99385^2 and
\* 0.99395^2).
C15_ScenarioStatistics ==
    (Scenario /\ ComputedBoth)
    => /\ SameVal(StatRmsd, Rat(1, 2))
       /\ ValSign(StatR) = 1
       /\ Between(Mul(StatR, StatR), 98773, 98794, 100000)

\* C15, amended: for observed [1,2,3,4] and simulated [1,2,3,5] RMSD is 0.5
\* and Pearson r is 13*sqrt(7)/35 = 6.5/sqrt(5 * 8.75), which is 0.9827 to
\* four decimals (r^2 = 169/175, between 0.98265^2 and 0.98275^2).
C15_ScenarioStatisticsClosedForm ==
    (Scenario /\ ComputedBoth)
    => /\ SameVal(StatRmsd, Rat(1, 2))
       /\ SameVal(StatR, Num(0, 13, 35, 7))
       /\ Between(Mul(StatR, StatR), 96560, 96580, 100000)

C15_Witness ==
    /\ Scenario
    /\ Wrote("rmsd")
    /\ Wrote("pearson_r")
    /\ call.obs_var = "v"
    /\ call.sim_var = "velsurf_mag"
    /\ prof.vars["rmsd"] = Rat(1, 2)

\* The number of values the series s holds.
FiniteCount(s) == Cardinality({j \in 1..Len(s) : ~ s[j].nan})

\* C16: the legacy calculate_stats returns NaN for both pearson_r and rmsd
\* whenever the difference of its two columns holds 2 or fewer values,
\* however many rows it has.
C16_LegacyNeedsThreeValues ==
    (/\ call.op = "calculate_stats_df"
     /\ FiniteCount(Diff(prof.vars, call.col1, call.col2)) <= 2)
    => ret.row.pearson_r.nan /\ ret.row.rmsd.nan

\* Degenerate statistics input: 2 or fewer points, an all-missing series, or
\* a series of zero variance.
Degenerate(a, b) ==
    \/ Len(a) <= 2
    \/ ~ HasFinite(a) \/ ~ HasFinite(b)
    \/ Constant(a) \/ Constant(b)

\* C17: on degenerate input the labeled-array calculate_stats raises nothing
\* and every statistic it writes is NaN.
C17_DegenerateInputGivesNaN ==
    (/\ call.op = "calculate_stats"
     /\ call.obs_var \in DOMAIN prof.vars
     /\ call.sim_var \in DOMAIN prof.vars
     /\ Degenerate(ObsSeries, SimSeries))
    => /\ ret.exc = "none"
       /\ \A stat \in StatNames(call.stats) : prof.vars[stat].nan


\* Invocation i has returned.
Done(i) == inv[i].pc = "done"

\* C18: every entry point of the pipeline (process_profile of
\* glacier_flow_tools, process_profile_xr and process_profile of pypism)
\* returns a merged profile that holds both rmsd and pearson_r.
C18_EntryPointsWriteBothStatistics ==
    \A i \in DOMAIN inv :
        Done(i) => {"rmsd", "pearson_r"} \subseteq DOMAIN inv[i].ret.ds.vars

\* C19: no step of an invocation of process_profile (extract_profile with
\* add_normal_component inside it, the merge, calculate_stats) changes a
\* variable or a coordinate of obs_ds or of sim_ds.
C19_InputsUnchanged == [][obs_ds' = obs_ds /\ sim_ds' = sim_ds]_vars

\* An invocation that projected the normal components and computed the
\* statistics has returned.
C19_Witness ==
    \E i \in DOMAIN inv :
        /\ Done(i)
        /\ inv[i].kw.compute_profile_normal
        /\ {"v_normal", "velsurf_normal", "rmsd"} \subseteq DOMAIN inv[i].ret.ds.vars
        /\ obs_ds = DsObs
        /\ sim_ds = DsSim

\* Invocation i has ended: it returned or it raised.
Ended(i) == inv[i].pc \in {"done", "raised"}

\* What invocation i is when it runs alone on the datasets the parallel
\* section was given.
Alone(i) ==
    process_profile(Submitted(inv[i].entry, inv[i].profile, inv[i].kw, inv[i].rnd),
                    DsObs, DsSim)

\* C20: however the steps of concurrent invocations interleave, an
\* invocation that has ended holds the result, and the local datasets, it
\* holds when it runs alone.
C20_InterleavingsGiveTheResultOfRunningAlone ==
    \A i \in DOMAIN inv : Ended(i) => inv[i] = Alone(i)

\* One invocation has returned while another, on a different profile, was
\* between its statements.
C20_Witness ==
    \E i, j \in DOMAIN inv :
        /\ Done(i)
        /\ inv[j].pc = "merge"
        /\ inv[i].profile # inv[j].profile


\* C22: for two distinct points, normal returns (dy, -dx) / |d|, where
\* (dx, dy) = point1 - point0: the displacement turned clockwise by a right
\* angle and normalised, whatever the flip branch does.
C22_NormalPointsRight ==
    (ret.op = "normal" /\ P0 # P1)
    => <<ret.a[1], ret.b[1]>> = Normalised(<<P1[2] - P0[2], -(P1[1] - P0[1])>>)


\* Point i of the polyline (1-based).
Point(i) == <<xs[i], ys[i]>>

\* The pair of points vector j of n is to be computed from (1-based): the
\* first from (1, 2), the last from (n - 1, n), the others from (j - 1, j + 1).
PairOf(j, n) ==
    IF j = 1 THEN <<1, 2>> ELSE IF j = n THEN <<n - 1, n>> ELSE <<j - 1, j + 1>>

\* What ns[j] = normal(p[i], p[k]) can leave in ns.
NormalsFrom(i, k) ==
    {Store(dtype, normal(Point(i), Point(k), r), c) :
        r \in Roundings(Point(i), Point(k)), c \in NaNCastsFor(dtype)}

\* What ts[j] = tangential(p[i], p[k]) can leave in ts.
TangentialsFrom(i, k) ==
    {Store(dtype, tangential(Point(i), Point(k)), c) : c \in NaNCastsFor(dtype)}

\* C23: for N >= 2 points compute_normals and compute_tangentials return N
\* vectors, the first computed from points (0, 1), the last from points
\* (N-2, N-1) and vector i in between from points (i-1, i+1).
C23_VectorsFromNeighbours ==
    (ret.op \in {"compute_normals", "compute_tangentials"} /\ Len(xs) >= 2)
    => /\ ret.exc = "none"
       /\ Len(ret.a) = Len(xs)
       /\ Len(ret.b) = Len(xs)
       /\ \A j \in 1..Len(xs) :
             <<ret.a[j], ret.b[j]>> \in
                 IF ret.op = "compute_normals"
                 THEN NormalsFrom(PairOf(j, Len(xs))[1], PairOf(j, Len(xs))[2])
                 ELSE TangentialsFrom(PairOf(j, Len(xs))[1], PairOf(j, Len(xs))[2])

\* Three points that are not in line: the vector in the middle differs from
\* the one either neighbouring segment gives.
C23_Witness ==
    /\ ret.op = "compute_tangentials"
    /\ ret.exc = "none"
    /\ dtype = "float"
    /\ Len(xs) = 3
    /\ (xs[2] - xs[1]) * (ys[3] - ys[1]) # (xs[3] - xs[1]) * (ys[2] - ys[1])
    /\ <<ret.a[2], ret.b[2]>> = tangential(Point(1), Point(3))


\* The call that was made is calculate_stats of the accessor.
CalledStats == call'.op = "calculate_stats"

\* C24: a calculate_stats call that returns has added or overwritten the
\* variables named in stats and no other: obs_var, sim_var and every other
\* variable hold what they held, and each statistic is a function of the two
\* input series (pearson_r up to the rounding of xr.corr on them).
C24_StatsWrittenInputsKept ==
    [][(CalledStats /\ ret'.exc = "none")
       => /\ DOMAIN prof'.vars = DOMAIN prof.vars \cup StatNames(call'.stats)
          /\ \A k \in DOMAIN prof.vars \ StatNames(call'.stats) :
                prof'.vars[k] = prof.vars[k]
          /\ "rmsd" \in StatNames(call'.stats)
                => prof'.vars["rmsd"]
                     = rmsd(prof.vars[call'.obs_var], prof.vars[call'.sim_var])
          /\ "pearson_r" \in StatNames(call'.stats)
                => \E r \in CorrRoundings :
                      prof'.vars["pearson_r"]
                        = pearson_r(prof.vars[call'.obs_var], prof.vars[call'.sim_var], r)]_vars

\* Both statistics were written for two series that differ.
C24_Witness ==
    /\ call.op = "calculate_stats"
    /\ ret.exc = "none"
    /\ call.stats = <<"rmsd", "pearson_r">>
    /\ call.obs_var = "v" /\ call.sim_var = "velsurf_mag"
    /\ prof.vars["v"] # prof.vars["velsurf_mag"]
    /\ {"rmsd", "pearson_r"} \subseteq DOMAIN prof.vars
    /\ ~ prof.vars["rmsd"].nan

\* C29: a calculate_stats call that raises leaves in the dataset no
\* statistic variable that was not there before the call.
C29_FailedCallWritesNothing ==
    [][(CalledStats /\ ret'.exc # "none")
       => DOMAIN prof'.vars \subseteq DOMAIN prof.vars]_vars


\* The statistic stat of the two variables of the dataset ds along dim.
StatisticAlong(ds, stat, dim) ==
    [s \in 1..Len(Along(ds.vars["v"], dim)) |->
        IF stat = "rmsd"
        THEN rmsd(Along(ds.vars["v"], dim)[s], Along(ds.vars["velsurf_mag"], dim)[s])
        ELSE corr(Along(ds.vars["v"], dim)[s], Along(ds.vars["velsurf_mag"], dim)[s])]

\* C25: a calculate_stats call with the argument dim computes every statistic
\* it was asked for along dim: rmsd and pearson_r are indexed by the other
\* dimension and hold the statistic of the series along dim.
C25_StatisticsAlongDim ==
    [][(CalledStats /\ ret'.exc = "none" /\ "dim" \in DOMAIN call')
       => \A j \in 1..Len(call'.stats) :
             /\ prof'.vars[call'.stats[j]].dim = Remaining(call'.dim)
             /\ prof'.vars[call'.stats[j]].val
                  = StatisticAlong(prof, call'.stats[j], call'.dim)]_vars

\* C28: a call of add_fluxes that returns adds the x and y flux variables
\* named in flux_vars, with or without error_vars; without error_vars the
\* variables of the dataset are the previous ones and these two.
C28_FluxVariablesAdded ==
    [][(call'.op = "add_fluxes" /\ ret'.exc = "none")
       => /\ {call'.args.flux_vars.x, call'.args.flux_vars.y} \subseteq DOMAIN obj'.vars
          /\ DOMAIN call'.args.error_vars = {}
             => DOMAIN obj'.vars
                = DOMAIN obj.vars \cup {call'.args.flux_vars.x, call'.args.flux_vars.y}]_vars

\* C30: no operation of the accessor makes _obj refer to another dataset than
\* the one it referred to before.
C30_WrappedReferenceKept == [][obj'.name = obj.name]_vars

\* C26: in the script no task is submitted before the add_fluxes calls have
\* returned, and a call of add_fluxes binds a dataset that is a new object
\* while the datasets that were opened keep their variables.
C26_FluxesBeforeFanOut ==
    [][/\ inv' # <<>> => main'.pc \notin {"add_fluxes_velocity", "add_fluxes_exp"}
       /\ (main.pc = "add_fluxes_velocity" /\ main'.pc = "add_fluxes_exp")
          => /\ main'.opened = main.opened
             /\ obs_ds'.name \notin {main.opened.velocity_ds.name, main.opened.exp_ds.name}
             /\ DOMAIN main.opened.velocity_ds.vars \subseteq DOMAIN obs_ds'.vars
       /\ (main.pc = "add_fluxes_exp" /\ main'.pc = "submit")
          => /\ main'.opened = main.opened
             /\ sim_ds'.name \notin {main.opened.velocity_ds.name, main.opened.exp_ds.name}
             /\ DOMAIN main.opened.exp_ds.vars \subseteq DOMAIN sim_ds'.vars]_vars

\* Tasks run on the datasets add_fluxes returned, the opened ones unchanged.
C26_Witness ==
    /\ main.thickness_url
    /\ \E i \in DOMAIN inv : inv[i].pc = "done"
    /\ obs_ds.name = "assign"
    /\ sim_ds.name = "assign"
    /\ main.opened = [velocity_ds |-> DsObs, exp_ds |-> DsExp]

\* The script has executed the gather statement.
Gathered == main.pc \in {"raised", "concat", "plot", "done"}

\* C27: when process_profile fails for a profile, the gather statement does
\* not end the script, and the results of the profiles that did not fail are
\* in obs_sims_profiles.
C27_FailureDoesNotAbortBatch ==
    (Gathered /\ \E i \in DOMAIN inv : inv[i].pc = "raised")
        => /\ main.pc # "raised"
           /\ \A i \in DOMAIN inv :
                 inv[i].pc = "done"
                     => \E j \in DOMAIN main.obs_sims_profiles :
                           main.obs_sims_profiles[j] = inv[i].ret.ds

\* The orders in which n results can be delivered.
Orders(n) == {f \in [1..n -> 1..n] : \A i, j \in 1..n : f[i] = f[j] => i = j}

Rows(df) == {df[j] : j \in DOMAIN df}

\* C21: the rows of stats_profiles are the rows concat gives for the results
\* delivered in any order, one row for every profile of the table, and a row
\* holds the statistics of the profile whose profile_id and profile_name it
\* holds.
C21_RecombinedByIdentity ==
    main.pc \in {"plot", "done"}
        => /\ \A f \in Orders(Len(main.obs_sims_profiles)) :
                 Rows(concat(main.profiles_gp,
                             [j \in DOMAIN main.obs_sims_profiles |->
                                 main.obs_sims_profiles[f[j]]]))
                 = Rows(main.stats_profiles)
           /\ \A i \in DOMAIN main.profiles_gp :
                 \E j \in DOMAIN main.stats_profiles :
                    /\ main.stats_profiles[j].profile_id = main.profiles_gp[i].profile_id
                    /\ main.stats_profiles[j].profile_name = main.profiles_gp[i].profile_name
           /\ \A j \in DOMAIN main.stats_profiles :
                 \E i \in DOMAIN inv :
                    /\ inv[i].profile.profile_id = main.stats_profiles[j].profile_id
                    /\ inv[i].profile.profile_name = main.stats_profiles[j].profile_name
                    /\ inv[i].profile.xs = main.stats_profiles[j].xs
                    /\ inv[i].ret.ds.vars["rmsd"] = main.stats_profiles[j].rmsd
                    /\ inv[i].ret.ds.vars["pearson_r"] = main.stats_profiles[j].pearson_r
                    /\ inv[i].ret.ds.vars["v_normal"] # <<>>
                    /\ main.stats_profiles[j].v_normal = nanmean(inv[i].ret.ds.vars["v_normal"])

\* Two profiles were recombined, the table not being in the order of the ids.
C21_Witness ==
    /\ main.pc = "done"
    /\ Len(main.stats_profiles) = 2
    /\ main.profiles_gp[1].profile_id > main.profiles_gp[2].profile_id
    /\ main.stats_profiles[1].rmsd # main.stats_profiles[2].rmsd

=============================================================================
